---- MODULE Spec2Model ----
(***************************************************************************)
(* A model of the container registry's protocol handlers (src/src/lib.rs)  *)
(* over its storage, authenticator and hook interfaces.                    *)
(*                                                                         *)
(* Each HTTP handler is one action.  A request is drawn from small input   *)
(* sets; the response to the most recent request is kept in `last`.        *)
(* Strings that the code parses (digests, Content-Length values) are       *)
(* sequences of one-character strings, so that parsing and formatting are  *)
(* computed and not assumed.                                               *)
(***************************************************************************)
EXTENDS Integers, Sequences, FiniteSets, TLC

(***************************************************************************)
(* Bounds of the model.                                                    *)
(***************************************************************************)
\* Number of upload UUIDs the storage hands out before POST is disabled.
MaxUploads == 2
\* Longest staged content, in bytes; a PATCH that would exceed it is not drawn.
MaxLen == 2
\* Most chunks the body stream of one PATCH delivers.
MaxChunks == 2

(***************************************************************************)
(* Program constants.                                                      *)
(***************************************************************************)
SHA256_LEN == 32
PREFIX_LEN == 7
DIGEST_HEX_LEN == SHA256_LEN * 2

\* The byte alphabet of blob and manifest bodies.
Byte == {0, 1}

\* All byte sequences of length at most n.
RECURSIVE SeqsUpTo(_)
SeqsUpTo(n) == IF n = 0 THEN {<<>>}
               ELSE SeqsUpTo(n - 1) \cup [1..n -> Byte]

Contents == SeqsUpTo(MaxLen)

(***************************************************************************)
(* Digests.  A digest is a sequence of SHA256_LEN bytes (0..255).          *)
(***************************************************************************)
\* An injective numbering of byte sequences: SHA-256 is modelled as a
\* collision-free function, which is what the registry relies on.
RECURSIVE Code(_)
Code(B) == IF B = <<>> THEN 0
           ELSE (B[Len(B)] + 1) + (Cardinality(Byte) + 1) * Code(SubSeq(B, 1, Len(B) - 1))

\* storage::Digest::from_contents: the SHA-256 of a byte sequence.
Digest_from_contents(B) ==
    [i \in 1..SHA256_LEN |->
        IF i = SHA256_LEN THEN Code(B) % 256
        ELSE IF i = SHA256_LEN - 1 THEN (Code(B) \div 256) % 256
        ELSE 171]

\* The same, computed once for every content the model draws.
Sha256Table == [B \in SeqsUpTo(MaxLen) |-> Digest_from_contents(B)]
Sha256(B) == Sha256Table[B]

\* A digest that is the hash of no content within the bounds.
UnknownDigest == [i \in 1..SHA256_LEN |-> 238]

HexDigits == <<"0", "1", "2", "3", "4", "5", "6", "7",
               "8", "9", "a", "b", "c", "d", "e", "f">>
UpperHexDigits == <<"0", "1", "2", "3", "4", "5", "6", "7",
                    "8", "9", "A", "B", "C", "D", "E", "F">>

\* hex::FromHex: the value of one hex character, -1 when it is none.
HexVal(c) == IF \E i \in 1..16 : HexDigits[i] = c
             THEN (CHOOSE i \in 1..16 : HexDigits[i] = c) - 1
             ELSE IF \E i \in 1..16 : UpperHexDigits[i] = c
             THEN (CHOOSE i \in 1..16 : UpperHexDigits[i] = c) - 1
             ELSE -1

\* Display of storage::Digest: lower-case hex, two characters per byte.
DigestHex(d) == [i \in 1..(2 * Len(d)) |->
                    IF i % 2 = 1 THEN HexDigits[(d[(i + 1) \div 2] \div 16) + 1]
                    ELSE HexDigits[(d[i \div 2] % 16) + 1]]

Sha256Prefix == <<"s", "h", "a", "2", "5", "6", ":">>

\* Display of ImageDigest: "sha256:" followed by the digest's hex.
ImageDigest_fmt(d) == Sha256Prefix \o DigestHex(d)

\* The same, computed once for every digest the model meets.
ToStringTable ==
    [d \in { Sha256Table[B] : B \in DOMAIN Sha256Table } \cup {UnknownDigest}
       |-> ImageDigest_fmt(d)]
to_string(d) == ToStringTable[d]

\* A from_str that looks at the prefix before it looks at the length.
ImageDigest_from_str_prefix_first(raw) ==
    IF Len(raw) < PREFIX_LEN \/ SubSeq(raw, 1, PREFIX_LEN) # Sha256Prefix
    THEN [err |-> "WrongPrefix", digest |-> <<>>]
    ELSE IF Len(raw) # PREFIX_LEN + DIGEST_HEX_LEN
    THEN [err |-> "WrongLength", digest |-> <<>>]
    ELSE LET hex_encoded == SubSeq(raw, PREFIX_LEN + 1, Len(raw))
         IN  IF \E i \in 1..DIGEST_HEX_LEN : HexVal(hex_encoded[i]) = -1
             THEN [err |-> "HexDecodeError", digest |-> <<>>]
             ELSE [err |-> "",
                   digest |-> [i \in 1..SHA256_LEN |->
                                 16 * HexVal(hex_encoded[2 * i - 1])
                                 + HexVal(hex_encoded[2 * i])]]

\* ImageDigest::from_str.  err is "" on success.
ImageDigest_from_str(raw) ==
    IF Len(raw) # PREFIX_LEN + DIGEST_HEX_LEN
    THEN [err |-> "WrongLength", digest |-> <<>>]
    ELSE IF SubSeq(raw, 1, PREFIX_LEN) # Sha256Prefix
    THEN [err |-> "WrongPrefix", digest |-> <<>>]
    ELSE LET hex_encoded == SubSeq(raw, PREFIX_LEN + 1, Len(raw))
         IN  IF \E i \in 1..DIGEST_HEX_LEN : HexVal(hex_encoded[i]) = -1
             THEN [err |-> "HexDecodeError", digest |-> <<>>]
             ELSE [err |-> "",
                   digest |-> [i \in 1..SHA256_LEN |->
                                 16 * HexVal(hex_encoded[2 * i - 1])
                                 + HexVal(hex_encoded[2 * i])]]

(***************************************************************************)
(* State.                                                                  *)
(***************************************************************************)
VARIABLES
    uploads,   \* staging area: upload id -> [present, data]
    issued,    \* number of upload ids handed out so far (each one is fresh)
    blobs,     \* blob namespace: set of <<digest, bytes>>
    manifests, \* manifest revisions: set of <<location, digest, bytes>>
    tags,      \* tag pointers: set of <<location, tag, digest>>
    last,      \* the most recent request and the response it got
    client,    \* per upload id: what its client has sent and been answered
    tagPut,    \* set of <<location, tag, bytes>>: the body most recently
               \* stored with 201 under each tag
    calls      \* per task: the handler call it is in the middle of, if any

storageVars == <<uploads, issued, blobs, manifests, tags>>
vars == <<uploads, issued, blobs, manifests, tags, last, client, tagPut, calls>>

UploadIds == 1..MaxUploads
\* The {uuid} path segment: an upload id, or 0 for a segment that is no UUID.
UploadArgs == 0..MaxUploads

\* Authorization header: absent, present with a wrong password, present and right.
Creds == {"none", "bad", "good"}

\* (repository, image) path segments.
Loc1 == <<"tests", "sample">>
Loc2 == <<"other", "sample">>
Locations == {Loc1, Loc2}

NoUpload == [present |-> FALSE, data |-> <<>>]

(***************************************************************************)
(* Storage interface (storage.rs is not part of the sources at hand; these *)
(* operators follow section 4.1 of the specification).                     *)
(***************************************************************************)
\* begin_new_upload: a fresh id and an empty staging object.
begin_new_upload(up, n) ==
    [upload |-> n + 1,
     uploads |-> [up EXCEPT ![n + 1] = [present |-> TRUE, data |-> <<>>]]]

\* The append-only upload writer: write_all adds the chunk at the end of the
\* staging object, wherever get_upload_writer was asked to start.
writer_write_all(data, chunk) == data \o chunk

\* get_upload_writer(offset, upload): the error that opening gave, if any, and
\* the staged bytes the writer appends to.
get_upload_writer(up, offset, u) ==
    IF up[u].present
    THEN [err |-> "", data |-> up[u].data]
    ELSE [err |-> "Storage:NotFound", data |-> <<>>]

\* A finalize_upload that trusts the digest it is given: it moves the staged
\* bytes under it, over what is there, without hashing them.
finalize_upload_unverified(up, bl, u, expected) ==
    IF ~up[u].present
    THEN [err |-> "Storage:NotFound", uploads |-> up, blobs |-> bl]
    ELSE [err |-> "",
          uploads |-> [up EXCEPT ![u] = NoUpload],
          blobs |-> { p \in bl : p[1] # expected } \cup {<<expected, up[u].data>>}]

\* finalize_upload(upload, expected): hash the staged bytes; on a match move
\* them into the blob namespace (a no-op for the namespace when the digest is
\* already there); on a mismatch discard them.
finalize_upload(up, bl, u, expected) ==
    IF ~up[u].present
    THEN [err |-> "Storage:NotFound", uploads |-> up, blobs |-> bl]
    ELSE IF Sha256(up[u].data) # expected
    THEN [err |-> "Storage:DigestMismatch",
          uploads |-> [up EXCEPT ![u] = NoUpload], blobs |-> bl]
    ELSE [err |-> "",
          uploads |-> [up EXCEPT ![u] = NoUpload],
          blobs |-> IF \E p \in bl : p[1] = expected THEN bl
                    ELSE bl \cup {<<expected, up[u].data>>}]

\* get_blob_reader(digest): the blob's bytes, or absence.
get_blob_reader(bl, d) ==
    IF \E p \in bl : p[1] = d
    THEN [found |-> TRUE, data |-> (CHOOSE p \in bl : p[1] = d)[2]]
    ELSE [found |-> FALSE, data |-> <<>>]

\* get_blob_metadata(digest): the blob's size, or absence.
get_blob_metadata(bl, d) ==
    IF \E p \in bl : p[1] = d
    THEN [found |-> TRUE, size |-> Len((CHOOSE p \in bl : p[1] = d)[2])]
    ELSE [found |-> FALSE, size |-> 0]

\* IntoResponse of storage::Error (section 7 of the specification).
storage_error_status(err) ==
    CASE err = "Storage:NotFound" -> 404
      [] err = "Storage:DigestMismatch" -> 400
      [] OTHER -> 500

(***************************************************************************)
(* Authenticator (auth.rs is not part of the sources at hand).             *)
(***************************************************************************)
\* AuthProvider::check_credentials for the shared-secret provider of the tests.
check_credentials(creds) == creds = "good"

\* The ValidUser extractor: credentials present and accepted.
ValidUser(creds) == creds # "none" /\ check_credentials(creds)

(***************************************************************************)
(* Requests and responses.                                                 *)
(***************************************************************************)
\* ContainerRegistry::new: the realm, as it appears in WWW-Authenticate.
WwwAuthenticate == "Basic realm=\"ContainerRegistry\""

\* A response: the status and the headers and body the handlers set.
Response(status, err) ==
    [status |-> status, err |-> err, www |-> "", digest |-> <<>>,
     body |-> <<>>, upload |-> 0, loc |-> <<>>, completed |-> -1,
     ctype |-> "", length |-> -1, events |-> <<>>]

\* The ValidUser extractor's rejection.
Unauthorized == [Response(401, "Unauthorized") EXCEPT !.www = WwwAuthenticate]

\* The Path and Query extractors' rejection (a segment or parameter that does
\* not deserialize).
PathRejection == Response(400, "PathRejection")
QueryRejection == Response(400, "QueryRejection")

\* RegistryError::into_response.
RegistryError_status(err) ==
    CASE err = "NotFound" -> 404
      [] err \in {"Storage:NotFound", "Storage:DigestMismatch", "Storage:Io"}
            -> storage_error_status(err)
      [] err = "ParseManifest" -> 400
      [] err = "NotSupported" -> 500
      [] err = "ContentLengthMalformed" -> 400
      [] err = "IncomingReadFailed" -> 500
      [] err = "LocalWriteFailed" -> 500
      [] OTHER -> 500

RegistryError_into_response(err) == Response(RegistryError_status(err), err)

\* The digest strings requests carry: the formatted digest of every content
\* within the bounds and of one unknown digest, that one also in upper case,
\* and three malformed ones (wrong length, wrong prefix, not hex).
UpperHex(d) == [i \in 1..(2 * Len(d)) |->
                   IF i % 2 = 1 THEN UpperHexDigits[(d[(i + 1) \div 2] \div 16) + 1]
                   ELSE UpperHexDigits[(d[i \div 2] % 16) + 1]]

MalformedDigestStrs ==
    { <<"l", "a", "t", "e", "s", "t">>,
      <<"s", "h", "a", "5", "1", "2", ":">> \o DigestHex(UnknownDigest),
      Sha256Prefix \o [i \in 1..DIGEST_HEX_LEN |-> "z"] }

WellFormedDigestStrs(contents) ==
    { ImageDigest_fmt(Sha256(B)) : B \in contents }
    \cup { ImageDigest_fmt(UnknownDigest), Sha256Prefix \o UpperHex(UnknownDigest) }

\* ImageDigest::deserialize, as the Path and Query extractors run it before
\* the handler's body: the segment or parameter, parsed.
ImageDigest_deserialize(raw) ==
    [raw |-> raw, err |-> ImageDigest_from_str(raw).err,
     digest |-> ImageDigest_from_str(raw).digest]

(***************************************************************************)
(* Handlers of the blob routes.                                            *)
(***************************************************************************)
\* An index_v2 that answers 200 to whoever presents credentials.
index_v2_any_credentials(creds) ==
    IF creds # "none"
    THEN [Response(200, "") EXCEPT !.www = WwwAuthenticate]
    ELSE Unauthorized

\* index_v2: GET /v2/.
index_v2(creds) ==
    IF creds # "none" /\ check_credentials(creds)
    THEN [Response(200, "") EXCEPT !.www = WwwAuthenticate]
    ELSE [Response(401, "") EXCEPT !.www = WwwAuthenticate]

\* blob_check: HEAD /v2/{repository}/{image}/blobs/{digest}.
\* image: what the Path extractor made of {digest}.
blob_check(bl, image, creds, io) ==
    LET metadata == get_blob_metadata(bl, image.digest)
    IN  IF image.err # "" THEN PathRejection
        ELSE IF ~ValidUser(creds) THEN Unauthorized
        ELSE IF io THEN RegistryError_into_response("Storage:Io")
        ELSE IF metadata.found
        THEN [Response(200, "") EXCEPT !.length = metadata.size,
                                       !.digest = to_string(image.digest),
                                       !.ctype = "application/octet-stream"]
        ELSE Response(404, "")

\* A blob_get that answers like blob_check, with Body::empty().
blob_get_empty_body(bl, image, creds, io) ==
    IF image.err # "" THEN PathRejection
    ELSE IF ~ValidUser(creds) THEN Unauthorized
    ELSE IF io THEN RegistryError_into_response("Storage:Io")
    ELSE IF ~get_blob_reader(bl, image.digest).found
    THEN RegistryError_into_response("NotFound")
    ELSE Response(200, "")

\* blob_get: GET /v2/{repository}/{image}/blobs/{digest}.
blob_get(bl, image, creds, io) ==
    LET reader == get_blob_reader(bl, image.digest)
    IN  IF image.err # "" THEN PathRejection
        ELSE IF ~ValidUser(creds) THEN Unauthorized
        ELSE IF io THEN RegistryError_into_response("Storage:Io")
        ELSE IF ~reader.found THEN RegistryError_into_response("NotFound")
        ELSE [Response(200, "") EXCEPT !.body = reader.data]

\* IntoResponse for UploadState: 202 with Location and Docker-Upload-UUID,
\* and Range "0-{completed}" when completed is set (-1: not set).
UploadState_into_response(location, completed, upload) ==
    [Response(202, "") EXCEPT !.loc = location, !.upload = upload,
                              !.completed = completed]

\* upload_new: POST /v2/{repository}/{image}/blobs/uploads/.
upload_new(up, n, location, creds, io) ==
    IF ~ValidUser(creds) THEN [resp |-> Unauthorized, uploads |-> up, issued |-> n]
    ELSE IF io
    THEN [resp |-> RegistryError_into_response("Storage:Io"),
          uploads |-> up, issued |-> n]
    ELSE LET new == begin_new_upload(up, n)
         IN  [resp |-> UploadState_into_response(location, -1, new.upload),
              uploads |-> new.uploads, issued |-> new.upload]

\* A body loop that stops after the first chunk (`if let` for `while let`).
write_chunks_first_only(data, chunks) ==
    IF chunks = <<>> THEN data ELSE writer_write_all(data, Head(chunks))

\* The body loop of upload_add_chunk: every chunk the stream delivers is
\* written through the writer, in order.
RECURSIVE write_chunks(_, _)
write_chunks(data, chunks) ==
    IF chunks = <<>> THEN data
    ELSE write_chunks(writer_write_all(data, Head(chunks)), Tail(chunks))

RECURSIVE TotalLen(_)
TotalLen(chunks) == IF chunks = <<>> THEN 0
                    ELSE Len(Head(chunks)) + TotalLen(Tail(chunks))

\* An upload_add_chunk that removes the staging object when the body stream
\* fails.
upload_add_chunk_drop_on_fail(up, location, upArg, creds, range, stream, fault) ==
    IF upArg = 0 THEN [resp |-> PathRejection, uploads |-> up]
    ELSE IF ~ValidUser(creds) THEN [resp |-> Unauthorized, uploads |-> up]
    ELSE IF range
    THEN [resp |-> RegistryError_into_response("NotSupported"), uploads |-> up]
    ELSE IF fault = "open"
    THEN [resp |-> RegistryError_into_response("Storage:Io"), uploads |-> up]
    ELSE IF get_upload_writer(up, 0, upArg).err # ""
    THEN [resp |-> RegistryError_into_response(get_upload_writer(up, 0, upArg).err),
          uploads |-> up]
    ELSE IF fault = "write" /\ stream.chunks # <<>>
    THEN [resp |-> RegistryError_into_response("LocalWriteFailed"), uploads |-> up]
    ELSE LET written ==
                 [up EXCEPT ![upArg].data =
                     write_chunks(get_upload_writer(up, 0, upArg).data, stream.chunks)]
         IN  IF stream.fails
             THEN [resp |-> RegistryError_into_response("IncomingReadFailed"),
                   uploads |-> [up EXCEPT ![upArg] = NoUpload]]
             ELSE IF fault = "flush"
             THEN [resp |-> RegistryError_into_response("LocalWriteFailed"),
                   uploads |-> written]
             ELSE [resp |-> UploadState_into_response(
                                location, TotalLen(stream.chunks), upArg),
                   uploads |-> written]

\* An upload_add_chunk that looks at the Range header only once the writer is
\* open.
upload_add_chunk_range_late(up, location, upArg, creds, range, stream, fault) ==
    IF upArg = 0 THEN [resp |-> PathRejection, uploads |-> up]
    ELSE IF ~ValidUser(creds) THEN [resp |-> Unauthorized, uploads |-> up]
    ELSE IF fault = "open"
    THEN [resp |-> RegistryError_into_response("Storage:Io"), uploads |-> up]
    ELSE IF get_upload_writer(up, 0, upArg).err # ""
    THEN [resp |-> RegistryError_into_response(get_upload_writer(up, 0, upArg).err),
          uploads |-> up]
    ELSE IF range
    THEN [resp |-> RegistryError_into_response("NotSupported"), uploads |-> up]
    ELSE IF fault = "write" /\ stream.chunks # <<>>
    THEN [resp |-> RegistryError_into_response("LocalWriteFailed"), uploads |-> up]
    ELSE LET written ==
                 [up EXCEPT ![upArg].data =
                     write_chunks(get_upload_writer(up, 0, upArg).data, stream.chunks)]
         IN  IF stream.fails
             THEN [resp |-> RegistryError_into_response("IncomingReadFailed"),
                   uploads |-> written]
             ELSE IF fault = "flush"
             THEN [resp |-> RegistryError_into_response("LocalWriteFailed"),
                   uploads |-> written]
             ELSE [resp |-> UploadState_into_response(
                                location, TotalLen(stream.chunks), upArg),
                   uploads |-> written]

\* An upload_add_chunk that takes offset 0 at its word and writes the body over
\* what was staged, from the start.
upload_add_chunk_from_start(up, location, upArg, creds, range, stream, fault) ==
    IF upArg = 0 THEN [resp |-> PathRejection, uploads |-> up]
    ELSE IF ~ValidUser(creds) THEN [resp |-> Unauthorized, uploads |-> up]
    ELSE IF range
    THEN [resp |-> RegistryError_into_response("NotSupported"), uploads |-> up]
    ELSE IF fault = "open"
    THEN [resp |-> RegistryError_into_response("Storage:Io"), uploads |-> up]
    ELSE IF get_upload_writer(up, 0, upArg).err # ""
    THEN [resp |-> RegistryError_into_response(get_upload_writer(up, 0, upArg).err),
          uploads |-> up]
    ELSE IF fault = "write" /\ stream.chunks # <<>>
    THEN [resp |-> RegistryError_into_response("LocalWriteFailed"), uploads |-> up]
    ELSE LET written ==
                 [up EXCEPT ![upArg].data =
                     write_chunks(<<>>, stream.chunks)]
         IN  IF stream.fails
             THEN [resp |-> RegistryError_into_response("IncomingReadFailed"),
                   uploads |-> written]
             ELSE IF fault = "flush"
             THEN [resp |-> RegistryError_into_response("LocalWriteFailed"),
                   uploads |-> written]
             ELSE [resp |-> UploadState_into_response(
                                location, TotalLen(stream.chunks), upArg),
                   uploads |-> written]

\* upload_add_chunk: PATCH /v2/{repository}/{image}/uploads/{upload}.
\* stream: the chunks the body delivers and whether it then fails;
\* fault: the I/O step that fails, if any ("open", "write", "flush").
upload_add_chunk(up, location, upArg, creds, range, stream, fault) ==
    IF upArg = 0 THEN [resp |-> PathRejection, uploads |-> up]
    ELSE IF ~ValidUser(creds) THEN [resp |-> Unauthorized, uploads |-> up]
    ELSE IF range
    THEN [resp |-> RegistryError_into_response("NotSupported"), uploads |-> up]
    ELSE IF fault = "open"
    THEN [resp |-> RegistryError_into_response("Storage:Io"), uploads |-> up]
    ELSE IF get_upload_writer(up, 0, upArg).err # ""
    THEN [resp |-> RegistryError_into_response(get_upload_writer(up, 0, upArg).err),
          uploads |-> up]
    ELSE IF fault = "write" /\ stream.chunks # <<>>
    THEN [resp |-> RegistryError_into_response("LocalWriteFailed"), uploads |-> up]
    ELSE LET written ==
                 [up EXCEPT ![upArg].data =
                     write_chunks(get_upload_writer(up, 0, upArg).data, stream.chunks)]
         IN  IF stream.fails
             THEN [resp |-> RegistryError_into_response("IncomingReadFailed"),
                   uploads |-> written]
             ELSE IF fault = "flush"
             THEN [resp |-> RegistryError_into_response("LocalWriteFailed"),
                   uploads |-> written]
             ELSE [resp |-> UploadState_into_response(
                                location, TotalLen(stream.chunks), upArg),
                   uploads |-> written]

\* The value of a decimal digit character, -1 when it is none.
DecVal(c) == IF \E i \in 1..10 : HexDigits[i] = c
             THEN (CHOOSE i \in 1..10 : HexDigits[i] = c) - 1
             ELSE -1

RECURSIVE DecValue(_)
DecValue(ds) == IF ds = <<>> THEN 0
                ELSE 10 * DecValue(SubSeq(ds, 1, Len(ds) - 1)) + DecVal(ds[Len(ds)])

\* str::parse::<u64>: an optional "+", then one or more decimal digits.
\* -1 when the string is no number.
parse_u64(v) ==
    LET ds == IF v # <<>> /\ v[1] = "+" THEN Tail(v) ELSE v
    IN  IF ds = <<>> \/ \E i \in 1..Len(ds) : DecVal(ds[i]) = -1 THEN -1
        ELSE DecValue(ds)

\* The Content-Length values a finalize request carries.
ContentLengths ==
    { [present |-> FALSE, value |-> <<>>],
      [present |-> TRUE, value |-> <<"0">>],
      [present |-> TRUE, value |-> <<"7">>],
      [present |-> TRUE, value |-> <<"x">>] }

\* An upload_finalize that looks at Content-Length after finalize_upload has
\* returned.
upload_finalize_length_late(up, bl, location, upArg, digest, creds, cl, io) ==
    LET same == [uploads |-> up, blobs |-> bl]
        done == finalize_upload(up, bl, upArg, digest.digest)
        moved == [uploads |-> done.uploads, blobs |-> done.blobs]
    IN  IF upArg = 0 THEN [resp |-> PathRejection] @@ same
        ELSE IF digest.err # "" THEN [resp |-> QueryRejection] @@ same
        ELSE IF ~ValidUser(creds) THEN [resp |-> Unauthorized] @@ same
        ELSE IF io
        THEN [resp |-> RegistryError_into_response("Storage:Io")] @@ same
        ELSE IF done.err # ""
        THEN [resp |-> RegistryError_into_response(done.err)] @@ moved
        ELSE IF cl.present /\ parse_u64(cl.value) = -1
        THEN [resp |-> RegistryError_into_response("ContentLengthMalformed")] @@ moved
        ELSE IF cl.present /\ parse_u64(cl.value) # 0
        THEN [resp |-> RegistryError_into_response("NotSupported")] @@ moved
        ELSE [resp |-> [Response(201, "") EXCEPT
                          !.digest = to_string(digest.digest),
                          !.loc = location, !.upload = upArg]] @@ moved

\* An upload_finalize that takes any Content-Length that is a number for an
\* empty body.
upload_finalize_any_length(up, bl, location, upArg, digest, creds, cl, io) ==
    LET same == [uploads |-> up, blobs |-> bl]
        done == finalize_upload(up, bl, upArg, digest.digest)
    IN  IF upArg = 0 THEN [resp |-> PathRejection] @@ same
        ELSE IF digest.err # "" THEN [resp |-> QueryRejection] @@ same
        ELSE IF ~ValidUser(creds) THEN [resp |-> Unauthorized] @@ same
        ELSE IF cl.present /\ parse_u64(cl.value) = -1
        THEN [resp |-> RegistryError_into_response("ContentLengthMalformed")] @@ same
        ELSE IF io
        THEN [resp |-> RegistryError_into_response("Storage:Io")] @@ same
        ELSE IF done.err # ""
        THEN [resp |-> RegistryError_into_response(done.err),
              uploads |-> done.uploads, blobs |-> done.blobs]
        ELSE [resp |-> [Response(201, "") EXCEPT
                          !.digest = to_string(digest.digest),
                          !.loc = location, !.upload = upArg],
              uploads |-> done.uploads, blobs |-> done.blobs]

\* An upload_finalize that refuses a digest the blob namespace already holds.
upload_finalize_refuse_existing(up, bl, location, upArg, digest, creds, cl, io) ==
    LET same == [uploads |-> up, blobs |-> bl]
        done == finalize_upload(up, bl, upArg, digest.digest)
    IN  IF upArg = 0 THEN [resp |-> PathRejection] @@ same
        ELSE IF digest.err # "" THEN [resp |-> QueryRejection] @@ same
        ELSE IF ~ValidUser(creds) THEN [resp |-> Unauthorized] @@ same
        ELSE IF cl.present /\ parse_u64(cl.value) = -1
        THEN [resp |-> RegistryError_into_response("ContentLengthMalformed")] @@ same
        ELSE IF cl.present /\ parse_u64(cl.value) # 0
        THEN [resp |-> RegistryError_into_response("NotSupported")] @@ same
        ELSE IF io THEN [resp |-> RegistryError_into_response("Storage:Io")] @@ same
        ELSE IF get_blob_metadata(bl, digest.digest).found
        THEN [resp |-> RegistryError_into_response("NotSupported")] @@ same
        ELSE IF done.err # ""
        THEN [resp |-> RegistryError_into_response(done.err),
              uploads |-> done.uploads, blobs |-> done.blobs]
        ELSE [resp |-> [Response(201, "") EXCEPT
                          !.digest = to_string(digest.digest),
                          !.loc = location, !.upload = upArg],
              uploads |-> done.uploads, blobs |-> done.blobs]

\* An upload_finalize that drops the result of finalize_upload (`.await.ok()`
\* for `.await?`) and answers 201 whatever the storage said.
upload_finalize_swallow(up, bl, location, upArg, digest, creds, cl, io) ==
    LET same == [uploads |-> up, blobs |-> bl]
        done == finalize_upload(up, bl, upArg, digest.digest)
    IN  IF upArg = 0 THEN [resp |-> PathRejection] @@ same
        ELSE IF digest.err # "" THEN [resp |-> QueryRejection] @@ same
        ELSE IF ~ValidUser(creds) THEN [resp |-> Unauthorized] @@ same
        ELSE IF cl.present /\ parse_u64(cl.value) = -1
        THEN [resp |-> RegistryError_into_response("ContentLengthMalformed")] @@ same
        ELSE IF cl.present /\ parse_u64(cl.value) # 0
        THEN [resp |-> RegistryError_into_response("NotSupported")] @@ same
        ELSE [resp |-> [Response(201, "") EXCEPT
                          !.digest = to_string(digest.digest),
                          !.loc = location, !.upload = upArg],
              uploads |-> IF io THEN up ELSE done.uploads,
              blobs |-> IF io THEN bl ELSE done.blobs]

\* upload_finalize: PUT /v2/{repository}/{image}/uploads/{upload}?digest=...
\* digest: what the Query extractor made of ?digest=.
upload_finalize(up, bl, location, upArg, digest, creds, cl, io) ==
    LET same == [uploads |-> up, blobs |-> bl]
        done == finalize_upload(up, bl, upArg, digest.digest)
    IN  IF upArg = 0 THEN [resp |-> PathRejection] @@ same
        ELSE IF digest.err # "" THEN [resp |-> QueryRejection] @@ same
        ELSE IF ~ValidUser(creds) THEN [resp |-> Unauthorized] @@ same
        ELSE IF cl.present /\ parse_u64(cl.value) = -1
        THEN [resp |-> RegistryError_into_response("ContentLengthMalformed")] @@ same
        ELSE IF cl.present /\ parse_u64(cl.value) # 0
        THEN [resp |-> RegistryError_into_response("NotSupported")] @@ same
        ELSE IF io
        THEN [resp |-> RegistryError_into_response("Storage:Io")] @@ same
        ELSE IF done.err # ""
        THEN [resp |-> RegistryError_into_response(done.err),
              uploads |-> done.uploads, blobs |-> done.blobs]
        ELSE [resp |-> [Response(201, "") EXCEPT
                          !.digest = to_string(digest.digest),
                          !.loc = location, !.upload = upArg],
              uploads |-> done.uploads, blobs |-> done.blobs]

(***************************************************************************)
(* Manifests.                                                              *)
(***************************************************************************)
\* The manifest bodies requests carry (UTF-8 text).  In this alphabet a body
\* is a JSON object when it starts with byte 1, and its second byte, when
\* there is one, is its mediaType member: <<1, 0>> and <<1, 1>> are manifests
\* of two media types, <<1>> is JSON without a media type, <<0>> is text
\* that is not JSON.
ManifestBodies == { <<1, 0>>, <<1, 1>>, <<1>>, <<0>> }

\* serde_json::from_slice::<ImageManifest> (types.rs is not part of the
\* sources at hand): "" when the bytes parse and carry a media type.
ImageManifest_parse(bytes) ==
    IF bytes = <<>> \/ bytes[1] # 1 THEN "not JSON"
    ELSE IF Len(bytes) < 2 THEN "missing field mediaType"
    ELSE ""

\* ImageManifest::media_type.
media_type(bytes) ==
    IF bytes[2] = 0 THEN "application/vnd.oci.image.manifest.v1+json"
    ELSE "application/vnd.docker.distribution.manifest.v2+json"

TagStrs == { <<"l", "a", "t", "e", "s", "t">>, <<"v", "1">> }

\* The {reference} path segments requests carry: the tags, the digest of
\* every manifest body and one digest no body has.
ReferenceStrs ==
    TagStrs \cup { ImageDigest_fmt(Sha256(M)) : M \in ManifestBodies }
            \cup { ImageDigest_fmt(UnknownDigest) }

\* Deserialize for Reference: a digest when the segment parses as one,
\* a tag otherwise.
Reference_from_str(s) ==
    LET parsed == ImageDigest_from_str(s)
    IN  IF parsed.err = ""
        THEN [kind |-> "digest", digest |-> parsed.digest, tag |-> <<>>]
        ELSE [kind |-> "tag", digest |-> <<>>, tag |-> s]

\* Deserialize for ManifestReference, as the Path extractor runs it.
ManifestReference_deserialize(location, s) ==
    [location |-> location, reference |-> Reference_from_str(s), raw |-> s]

\* A put_manifest that, moving a tag, removes the revision the tag pointed to.
put_manifest_retag_removes(mf, tg, location, reference, bytes, fault) ==
    LET digest == Sha256(bytes)
        old == { t[3] : t \in { t \in tg : /\ reference.kind = "tag"
                                             /\ t[1] = location
                                             /\ t[2] = reference.tag } }
        kept == { m \in mf : ~(m[1] = location /\ m[2] \in old) }
        written == kept \cup {<<location, digest, bytes>>}
    IN  IF fault = "write"
        THEN [err |-> "Storage:Io", digest |-> digest, manifests |-> mf, tags |-> tg]
        ELSE IF reference.kind = "tag"
        THEN IF fault = "tag"
             THEN [err |-> "Storage:Io", digest |-> digest,
                   manifests |-> mf \cup {<<location, digest, bytes>>}, tags |-> tg]
             ELSE [err |-> "", digest |-> digest, manifests |-> written,
                   tags |-> { t \in tg : ~(t[1] = location /\ t[2] = reference.tag) }
                            \cup {<<location, reference.tag, digest>>}]
        ELSE IF reference.digest # digest
        THEN [err |-> "Storage:DigestMismatch", digest |-> digest,
              manifests |-> written, tags |-> tg]
        ELSE [err |-> "", digest |-> digest, manifests |-> written, tags |-> tg]

\* put_manifest(reference, bytes): hash the bytes, write them under the
\* digest address, then record the tag or compare with the digest supplied.
\* fault: the I/O step that fails, if any ("write", "tag").
put_manifest(mf, tg, location, reference, bytes, fault) ==
    LET digest == Sha256(bytes)
        written == mf \cup {<<location, digest, bytes>>}
    IN  IF fault = "write"
        THEN [err |-> "Storage:Io", digest |-> digest, manifests |-> mf, tags |-> tg]
        ELSE IF reference.kind = "tag"
        THEN IF fault = "tag"
             THEN [err |-> "Storage:Io", digest |-> digest,
                   manifests |-> written, tags |-> tg]
             ELSE [err |-> "", digest |-> digest, manifests |-> written,
                   tags |-> { t \in tg : ~(t[1] = location /\ t[2] = reference.tag) }
                            \cup {<<location, reference.tag, digest>>}]
        ELSE IF reference.digest # digest
        THEN [err |-> "Storage:DigestMismatch", digest |-> digest,
              manifests |-> written, tags |-> tg]
        ELSE [err |-> "", digest |-> digest, manifests |-> written, tags |-> tg]

\* The revision stored under a digest of a location.
revision(mf, location, digest) ==
    IF \E m \in mf : m[1] = location /\ m[2] = digest
    THEN [found |-> TRUE,
          data |-> (CHOOSE m \in mf : m[1] = location /\ m[2] = digest)[3]]
    ELSE [found |-> FALSE, data |-> <<>>]

\* get_manifest(reference): resolve the tag when it is one, then read.
get_manifest(mf, tg, location, reference) ==
    IF reference.kind = "digest" THEN revision(mf, location, reference.digest)
    ELSE IF \E t \in tg : t[1] = location /\ t[2] = reference.tag
    THEN revision(mf, location,
                  (CHOOSE t \in tg : t[1] = location /\ t[2] = reference.tag)[3])
    ELSE [found |-> FALSE, data |-> <<>>]

\* RegistryHooks::on_manifest_uploaded: the event the hook sink receives.
\* Whatever happens inside the hook (outcome) stays inside it.
on_manifest_uploaded(outcome) == "on_manifest_uploaded:" \o outcome

\* A manifest_put that stores the body under its digest only, whatever the
\* reference in the path.
manifest_put_untagged(mf, tg, manifest_reference, creds, body, fault, outcome) ==
    LET put == put_manifest(mf, tg, manifest_reference.location,
                            [kind |-> "digest", digest |-> Sha256(body),
                             tag |-> <<>>], body, fault)
    IN  IF ~ValidUser(creds)
        THEN [resp |-> Unauthorized, manifests |-> mf, tags |-> tg]
        ELSE IF put.err # ""
        THEN [resp |-> [RegistryError_into_response(put.err) EXCEPT
                          !.events = <<"put_manifest:err">>],
              manifests |-> put.manifests, tags |-> put.tags]
        ELSE [resp |-> [Response(201, "") EXCEPT
                          !.loc = <<manifest_reference.location,
                                   manifest_reference.raw>>,
                          !.length = 0,
                          !.digest = to_string(put.digest),
                          !.events = <<"put_manifest:ok",
                                       on_manifest_uploaded(outcome)>>],
              manifests |-> put.manifests, tags |-> put.tags]

\* A manifest_put that calls the hook before it looks at what put_manifest
\* returned.
manifest_put_hook_first(mf, tg, manifest_reference, creds, body, fault, outcome) ==
    LET put == put_manifest(mf, tg, manifest_reference.location,
                            manifest_reference.reference, body, fault)
    IN  IF ~ValidUser(creds)
        THEN [resp |-> Unauthorized, manifests |-> mf, tags |-> tg]
        ELSE IF put.err # ""
        THEN [resp |-> [RegistryError_into_response(put.err) EXCEPT
                          !.events = <<"put_manifest:err",
                                       on_manifest_uploaded(outcome)>>],
              manifests |-> put.manifests, tags |-> put.tags]
        ELSE [resp |-> [Response(201, "") EXCEPT
                          !.loc = <<manifest_reference.location,
                                   manifest_reference.raw>>,
                          !.length = 0,
                          !.digest = to_string(put.digest),
                          !.events = <<"put_manifest:ok",
                                       on_manifest_uploaded(outcome)>>],
              manifests |-> put.manifests, tags |-> put.tags]

\* A manifest_put that drops what put_manifest returned (`.await.ok()` for
\* `.await?`) and answers 201 with the digest of the body.
manifest_put_swallow(mf, tg, manifest_reference, creds, body, fault, outcome) ==
    LET put == put_manifest(mf, tg, manifest_reference.location,
                            manifest_reference.reference, body, fault)
    IN  IF ~ValidUser(creds)
        THEN [resp |-> Unauthorized, manifests |-> mf, tags |-> tg]
        ELSE [resp |-> [Response(201, "") EXCEPT
                          !.loc = <<manifest_reference.location,
                                   manifest_reference.raw>>,
                          !.length = 0,
                          !.digest = to_string(put.digest),
                          !.events = <<"put_manifest:ok",
                                       on_manifest_uploaded(outcome)>>],
              manifests |-> put.manifests, tags |-> put.tags]

\* manifest_put: PUT /v2/{repository}/{image}/manifests/{reference}.
\* manifest_reference: what the Path extractor made of the path.
manifest_put(mf, tg, manifest_reference, creds, body, fault, outcome) ==
    LET put == put_manifest(mf, tg, manifest_reference.location,
                            manifest_reference.reference, body, fault)
    IN  IF ~ValidUser(creds)
        THEN [resp |-> Unauthorized, manifests |-> mf, tags |-> tg]
        ELSE IF put.err # ""
        THEN [resp |-> [RegistryError_into_response(put.err) EXCEPT
                          !.events = <<"put_manifest:err">>],
              manifests |-> put.manifests, tags |-> put.tags]
        ELSE [resp |-> [Response(201, "") EXCEPT
                          !.loc = <<manifest_reference.location,
                                   manifest_reference.raw>>,
                          !.length = 0,
                          !.digest = to_string(put.digest),
                          !.events = <<"put_manifest:ok",
                                       on_manifest_uploaded(outcome)>>],
              manifests |-> put.manifests, tags |-> put.tags]

\* A manifest_get that serves the stored bytes as they are, unparsed.
manifest_get_unparsed(mf, tg, manifest_reference, creds, io) ==
    LET manifest_json == get_manifest(mf, tg, manifest_reference.location,
                                      manifest_reference.reference)
    IN  IF ~ValidUser(creds) THEN Unauthorized
        ELSE IF io THEN RegistryError_into_response("Storage:Io")
        ELSE IF ~manifest_json.found THEN RegistryError_into_response("NotFound")
        ELSE [Response(200, "") EXCEPT
                 !.length = Len(manifest_json.data),
                 !.body = manifest_json.data]

\* A manifest_get that answers 200 without the stored bytes.
manifest_get_no_body(mf, tg, manifest_reference, creds, io) ==
    LET manifest_json == get_manifest(mf, tg, manifest_reference.location,
                                      manifest_reference.reference)
    IN  IF ~ValidUser(creds) THEN Unauthorized
        ELSE IF io THEN RegistryError_into_response("Storage:Io")
        ELSE IF ~manifest_json.found THEN RegistryError_into_response("NotFound")
        ELSE IF ImageManifest_parse(manifest_json.data) # ""
        THEN RegistryError_into_response("ParseManifest")
        ELSE [Response(200, "") EXCEPT
                 !.length = Len(manifest_json.data),
                 !.ctype = media_type(manifest_json.data)]

\* A manifest_get that takes a miss for empty bytes (`unwrap_or_default()` for
\* `ok_or(RegistryError::NotFound)?`).
manifest_get_miss_as_empty(mf, tg, manifest_reference, creds, io) ==
    LET manifest_json == get_manifest(mf, tg, manifest_reference.location,
                                      manifest_reference.reference)
    IN  IF ~ValidUser(creds) THEN Unauthorized
        ELSE IF io THEN RegistryError_into_response("Storage:Io")
        ELSE IF ImageManifest_parse(manifest_json.data) # ""
        THEN RegistryError_into_response("ParseManifest")
        ELSE [Response(200, "") EXCEPT
                 !.length = Len(manifest_json.data),
                 !.ctype = media_type(manifest_json.data),
                 !.body = manifest_json.data]

\* manifest_get: GET /v2/{repository}/{image}/manifests/{reference}.
manifest_get(mf, tg, manifest_reference, creds, io) ==
    LET manifest_json == get_manifest(mf, tg, manifest_reference.location,
                                      manifest_reference.reference)
    IN  IF ~ValidUser(creds) THEN Unauthorized
        ELSE IF io THEN RegistryError_into_response("Storage:Io")
        ELSE IF ~manifest_json.found THEN RegistryError_into_response("NotFound")
        ELSE IF ImageManifest_parse(manifest_json.data) # ""
        THEN RegistryError_into_response("ParseManifest")
        ELSE [Response(200, "") EXCEPT
                 !.length = Len(manifest_json.data),
                 !.ctype = media_type(manifest_json.data),
                 !.body = manifest_json.data]

(***************************************************************************)
(* The requests the model draws.  Path and credentials vary freely; I/O    *)
(* faults and odd headers are drawn one at a time, on requests that are    *)
(* otherwise in order.                                                      *)
(***************************************************************************)
\* HEAD and GET of a blob.
BlobReadRequests(contents) ==
    { r \in [image : { ImageDigest_deserialize(s) :
                         s \in WellFormedDigestStrs(contents)
                               \cup MalformedDigestStrs },
             creds : Creds, io : BOOLEAN] :
        r.io => (r.creds = "good" /\ r.image.err = "") }

\* POST of a new upload.
PostRequests ==
    { r \in [location : Locations, creds : Creds, io : BOOLEAN] :
        r.io => (r.creds = "good" /\ r.location = Loc1) }

\* The body streams of a PATCH: at most MaxChunks non-empty chunks of at most
\* maxLen bytes in all, after which the stream ends or fails.
ChunkSeqs(maxLen) ==
    { cs \in UNION { [1..n -> SeqsUpTo(maxLen) \ {<<>>}] : n \in 0..MaxChunks } :
        TotalLen(cs) <= maxLen }

Streams(maxLen) == [chunks : ChunkSeqs(maxLen), fails : BOOLEAN]

NoStream == [chunks |-> <<>>, fails |-> FALSE]

\* PATCH of an upload.
PatchRequests(streams) ==
    { r \in [upArg : UploadArgs, creds : Creds, range : BOOLEAN,
             fault : {"none", "open", "write", "flush"}, stream : streams] :
        \/ r.upArg # 0 /\ r.creds = "good" /\ ~r.range /\ r.fault = "none"
        \/ r.stream = NoStream /\ ~r.range /\ r.fault = "none"
        \/ r.upArg # 0 /\ r.creds = "good" /\ r.range /\ r.fault = "none"
             /\ ~r.stream.fails /\ Len(r.stream.chunks) = 1
        \/ r.upArg # 0 /\ r.creds = "good" /\ ~r.range /\ r.fault # "none"
             /\ ~r.stream.fails /\ Len(r.stream.chunks) = 1 }

\* PUT that finalizes an upload.
FinalizeRequests(contents) ==
    { r \in [upArg : UploadArgs,
             digest : { ImageDigest_deserialize(s) :
                          s \in WellFormedDigestStrs(contents)
                                \cup MalformedDigestStrs },
             creds : Creds, cl : ContentLengths, io : BOOLEAN] :
        \/ ~r.cl.present /\ ~r.io
        \/ r.upArg # 0 /\ r.digest.err = ""
             /\ r.creds = "good" /\ (r.cl.present => ~r.io) }

\* The manifest paths requests carry, as the Path extractor hands them on.
ManifestReferences ==
    { ManifestReference_deserialize(l, s) : l \in Locations, s \in ReferenceStrs }

\* PUT of a manifest.  The second location takes one manifest under one tag.
ManifestPutRequests ==
    { r \in [ref : ManifestReferences, creds : Creds,
             body : ManifestBodies, fault : {"none", "write", "tag"},
             outcome : {"ok", "failed"}] :
        /\ \/ r.creds = "good" /\ r.fault = "none"
           \/ r.creds = "good" /\ r.fault # "none" /\ r.outcome = "ok"
           \/ r.creds # "good" /\ r.fault = "none" /\ r.outcome = "ok"
                /\ r.body = <<1, 0>>
        /\ r.ref.location = Loc2
             => r.body = <<1, 0>> /\ r.ref.raw = <<"l", "a", "t", "e", "s", "t">> }

\* GET of a manifest.
ManifestGetRequests ==
    { r \in [ref : ManifestReferences, creds : Creds, io : BOOLEAN] :
        r.io => r.creds = "good" }

(***************************************************************************)
(* The registry as a state machine: one action per route.                  *)
(***************************************************************************)
\* What the client of an upload id has observed: the bytes of the PATCH bodies
\* answered 202 so far, how many there were (2 stands for two or more), whether
\* every request on the id was answered with success, and the ?digest= and
\* the Docker-Content-Digest of the PUT that was answered 201.
FreshClient ==
    [sent |-> <<>>, npatch |-> 0, clean |-> TRUE, asked |-> <<>>, fin |-> <<>>]
DirtyClient ==
    [sent |-> <<>>, npatch |-> 0, clean |-> FALSE, asked |-> <<>>, fin |-> <<>>]

\* The request body a stream of chunks amounts to.
RECURSIVE Flatten(_)
Flatten(chunks) == IF chunks = <<>> THEN <<>>
                   ELSE Head(chunks) \o Flatten(Tail(chunks))

Request(op, creds, resp) == [op |-> op, creds |-> creds, resp |-> resp]

\* The tasks that run handler calls side by side, and a task between calls.
Procs == {1, 2}

Idle == [op |-> "idle", pc |-> "idle"]

Init ==
    /\ uploads = [u \in UploadIds |-> NoUpload]
    /\ issued = 0
    /\ blobs = {}
    /\ manifests = {}
    /\ tags = {}
    /\ last = Request("none", "none", Response(0, ""))
    /\ client = [u \in UploadIds |-> FreshClient]
    /\ tagPut = {}
    /\ calls = [p \in Procs |-> Idle]

GetIndex ==
    \E creds \in Creds :
        /\ last' = Request("index_v2", creds, index_v2(creds))
        /\ UNCHANGED <<storageVars, client, tagPut, calls>>

HeadBlob(requests) ==
    \E r \in requests :
        /\ last' = Request("blob_check", r.creds,
                           blob_check(blobs, r.image, r.creds, r.io))
        /\ UNCHANGED <<storageVars, client, tagPut, calls>>

GetBlob(requests) ==
    \E r \in requests :
        /\ last' = Request("blob_get", r.creds,
                           blob_get(blobs, r.image, r.creds, r.io))
        /\ UNCHANGED <<storageVars, client, tagPut, calls>>

\* maxUploads: the number of upload ids after which POST is no longer drawn.
PostUpload(requests, maxUploads) ==
    \E r \in requests :
        /\ issued < maxUploads
        /\ LET h == upload_new(uploads, issued, r.location, r.creds, r.io)
           IN  /\ last' = Request("upload_new", r.creds, h.resp)
               /\ uploads' = h.uploads
               /\ issued' = h.issued
               /\ client' = IF h.issued # issued
                            THEN [client EXCEPT ![h.issued] = FreshClient]
                            ELSE client
        /\ UNCHANGED <<blobs, manifests, tags, tagPut, calls>>

\* maxLen: the staged length beyond which a PATCH is not drawn.
PatchUpload(requests, maxLen) ==
    \E r \in requests :
        /\ r.upArg # 0 /\ uploads[r.upArg].present
             => Len(uploads[r.upArg].data) + TotalLen(r.stream.chunks) <= maxLen
        /\ LET h == upload_add_chunk(uploads, Loc1, r.upArg, r.creds, r.range,
                                     r.stream, r.fault)
           IN  /\ last' = Request("upload_add_chunk", r.creds, h.resp)
               /\ uploads' = h.uploads
               /\ client' =
                    IF r.upArg = 0 \/ r.upArg > issued \/ client[r.upArg].fin # <<>>
                    THEN client
                    ELSE IF h.resp.status = 202 /\ client[r.upArg].clean
                    THEN [client EXCEPT
                            ![r.upArg].sent = @ \o Flatten(r.stream.chunks),
                            ![r.upArg].npatch = IF @ < 2 THEN @ + 1 ELSE 2]
                    ELSE [client EXCEPT ![r.upArg] = DirtyClient]
        /\ UNCHANGED <<issued, blobs, manifests, tags, tagPut, calls>>

PutUpload(requests) ==
    \E r \in requests :
        LET h == upload_finalize(uploads, blobs, Loc1, r.upArg, r.digest,
                                 r.creds, r.cl, r.io)
        IN  /\ last' = Request("upload_finalize", r.creds, h.resp)
            /\ uploads' = h.uploads
            /\ blobs' = h.blobs
            /\ client' =
                 IF r.upArg = 0 \/ r.upArg > issued \/ client[r.upArg].fin # <<>>
                 THEN client
                 ELSE IF h.resp.status = 201 /\ client[r.upArg].clean
                 THEN [client EXCEPT ![r.upArg].fin = h.resp.digest,
                                     ![r.upArg].asked = r.digest.raw]
                 ELSE [client EXCEPT ![r.upArg] = DirtyClient]
            /\ UNCHANGED <<issued, manifests, tags, tagPut, calls>>

PutManifest(requests) ==
    \E r \in requests :
        LET h == manifest_put(manifests, tags, r.ref, r.creds,
                              r.body, r.fault, r.outcome)
        IN  /\ last' = Request("manifest_put", r.creds, h.resp)
            /\ manifests' = h.manifests
            /\ tags' = h.tags
            /\ tagPut' =
                 IF h.resp.status = 201 /\ r.ref.reference.kind = "tag"
                 THEN { t \in tagPut : ~(t[1] = r.ref.location
                                          /\ t[2] = r.ref.reference.tag) }
                      \cup {<<r.ref.location, r.ref.reference.tag, r.body>>}
                 ELSE tagPut
            /\ UNCHANGED <<uploads, issued, blobs, client, calls>>

GetManifest(requests) ==
    \E r \in requests :
        /\ last' = Request("manifest_get", r.creds,
                           manifest_get(manifests, tags, r.ref, r.creds, r.io))
        /\ UNCHANGED <<storageVars, client, tagPut, calls>>

(***************************************************************************)
(* Specifications.                                                         *)
(***************************************************************************)
\* Request sets, evaluated once.
ShortLen == 1
ShortContents == SeqsUpTo(ShortLen)
ShortBlobReads == { r : r \in BlobReadRequests(ShortContents) }
ShortPatches == { r : r \in PatchRequests(Streams(ShortLen)) }
ShortFinalizes == { r : r \in FinalizeRequests(ShortContents) }
LongBlobReads == { r : r \in BlobReadRequests(Contents) }
LongPatches == { r : r \in PatchRequests(Streams(MaxLen)) }
LongFinalizes == { r : r \in FinalizeRequests(Contents) }
Posts == { r : r \in PostRequests }
ManifestPuts == { r : r \in ManifestPutRequests }
ManifestGets == { r : r \in ManifestGetRequests }

\* Several uploads of short contents, side by side.
NextBlob ==
    \/ GetBlob(ShortBlobReads)
    \/ PostUpload(Posts, MaxUploads)
    \/ PatchUpload(ShortPatches, ShortLen)
    \/ PutUpload(ShortFinalizes)

SpecBlob == Init /\ [][NextBlob]_vars

\* One upload, pushed in up to MaxChunks chunks per PATCH, up to MaxLen bytes.
NextPush ==
    \/ GetIndex
    \/ HeadBlob(LongBlobReads)
    \/ GetBlob(LongBlobReads)
    \/ PostUpload(Posts, 1)
    \/ PatchUpload(LongPatches, MaxLen)
    \/ PutUpload(LongFinalizes)

SpecPush == Init /\ [][NextPush]_vars

\* The manifest routes.
NextManifest ==
    \/ PutManifest(ManifestPuts)
    \/ GetManifest(ManifestGets)

SpecManifest == Init /\ [][NextManifest]_vars

(***************************************************************************)
(* Properties.                                                             *)
(***************************************************************************)
\* A request with valid credentials and no I/O fault that reads the blob
\* named by the digest string s.
\* The canonical digest string of a content.
DigestStrOf(B) == to_string(Sha256(B))

\* The digest strings in canonical (lower-case) form that requests carry.
CanonicalDigestStrs ==
    { DigestStrOf(B) : B \in Contents } \cup { to_string(UnknownDigest) }

\* What the Path and Query extractors make of each canonical digest string.
DeserializedTable == [s \in CanonicalDigestStrs |-> ImageDigest_deserialize(s)]

Deserialized(s) == DeserializedTable[s]


GetBlobResponse(s) == blob_get(blobs, Deserialized(s), "good", FALSE)
HeadBlobResponse(s) == blob_check(blobs, Deserialized(s), "good", FALSE)

\* The uploads whose client has seen POST 202, then exactly n PATCHes without
\* Range, all answered 202 (n = 2: two or more), and nothing else.
Pushed(u, n) == u <= issued /\ client[u].clean /\ client[u].npatch = n

\* The PUT ?digest=s on upload u, with valid credentials, no Content-Length
\* and no I/O fault, as the handler would answer it now.
FinalizeOutcome(u, s) ==
    upload_finalize(uploads, blobs, Loc1, u, Deserialized(s), "good",
                    [present |-> FALSE, value |-> <<>>], FALSE)

FinalizeResponse(u, s) == FinalizeOutcome(u, s).resp

\* C1: monolithic push round trip.  After POST (202) and one PATCH of body B
\* without Range (202), the PUT with ?digest=sha256:SHA-256(B) is answered
\* 201; and once it has been, with Docker-Content-Digest equal to the digest
\* supplied, GET of that digest returns 200 with body exactly B and HEAD
\* returns 200 with the same digest header.
C1_MonolithicRoundTrip ==
    \A u \in UploadIds :
        Pushed(u, 1) =>
            LET B == client[u].sent
                D == DigestStrOf(B)
            IN  /\ client[u].fin = <<>> => FinalizeResponse(u, D).status = 201
                /\ client[u].asked = D =>
                     /\ client[u].fin = D
                     /\ GetBlobResponse(D).status = 200
                     /\ GetBlobResponse(D).body = B
                     /\ HeadBlobResponse(D).status = 200
                     /\ HeadBlobResponse(D).digest = D

\* A two-byte body, pushed in one PATCH, committed and read back by GET.
C1_Witness ==
    /\ Pushed(1, 1)
    /\ Len(client[1].sent) = 2
    /\ client[1].asked = DigestStrOf(client[1].sent)
    /\ last.op = "blob_get"
    /\ last.resp.status = 200
    /\ last.resp.body = client[1].sent

\* C2: in every state that POST, PATCH and PUT requests, successful or
\* failed, lead to, every blob in the blob namespace is stored under the
\* SHA-256 of its bytes, once, and a GET that finds a blob under a digest
\* returns bytes that hash to that digest.
C2_BlobsHashToTheirDigest ==
    /\ \A p \in blobs : p[1] = Digest_from_contents(p[2])
    /\ \A p, q \in blobs : p[1] = q[1] => p = q
    /\ \A s \in CanonicalDigestStrs :
          GetBlobResponse(s).status = 200 => DigestStrOf(GetBlobResponse(s).body) = s

\* Two blobs are committed, and the last finalize failed on its digest.
C2_Witness ==
    /\ \E p \in blobs : Len(p[2]) = 1
    /\ last.op = "upload_finalize"
    /\ last.resp.err = "Storage:DigestMismatch"
    /\ \E s \in CanonicalDigestStrs : GetBlobResponse(s).status = 200

\* The finalize requests C3 is about: valid credentials, no Content-Length,
\* no I/O fault, on an upload that is there, with a well-formed digest that is
\* not the SHA-256 of the staged bytes.
WrongDigestStrs(u) ==
    { s \in CanonicalDigestStrs : s # DigestStrOf(uploads[u].data) }

Observable(bl, s) == blob_get(bl, Deserialized(s), "good", FALSE).status = 200

\* C3 as stated: a finalize with a digest X that is not the SHA-256 of the
\* staged bytes fails with DigestMismatch, and afterwards no blob is
\* observable under the correct digest of the staged bytes nor under X.
C3_Original ==
    \A u \in UploadIds : uploads[u].present =>
        \A s \in WrongDigestStrs(u) :
            LET h == FinalizeOutcome(u, s)
            IN  /\ h.resp.err = "Storage:DigestMismatch"
                /\ ~Observable(h.blobs, s)
                /\ ~Observable(h.blobs, DigestStrOf(uploads[u].data))

\* C3, amended: such a finalize fails with DigestMismatch (status 400),
\* discards the staged bytes and leaves the blob namespace as it was: it makes
\* no blob observable, under the correct digest or under X, that was not
\* observable before the call.
C3_WrongDigestAddsNoBlob ==
    \A u \in UploadIds : uploads[u].present =>
        \A s \in WrongDigestStrs(u) :
            LET h == FinalizeOutcome(u, s)
            IN  /\ h.resp.err = "Storage:DigestMismatch"
                /\ h.resp.status = 400
                /\ ~h.uploads[u].present
                /\ h.blobs = blobs
                /\ Observable(h.blobs, s) => Observable(blobs, s)
                /\ Observable(h.blobs, DigestStrOf(uploads[u].data))
                     => Observable(blobs, DigestStrOf(uploads[u].data))

\* A finalize has just failed on its digest while a blob is committed.
C3_Witness ==
    /\ last.op = "upload_finalize"
    /\ last.resp.err = "Storage:DigestMismatch"
    /\ last.resp.status = 400
    /\ blobs # {}
    /\ \E u \in UploadIds : u <= issued /\ ~uploads[u].present /\ ~client[u].clean

\* The routes behind the authentication gate.
ProtectedOps ==
    {"blob_check", "blob_get", "upload_new", "upload_add_chunk",
     "upload_finalize", "manifest_put", "manifest_get"}

\* C6 as stated: on every protected route a request without an Authorization
\* header is answered 401 and leaves storage unchanged, the hook not invoked.
C6_Original ==
    [][(last'.op \in ProtectedOps /\ last'.creds = "none")
          => /\ last'.resp.status = 401
             /\ last'.resp.events = <<>>
             /\ UNCHANGED storageVars]_vars

\* C7: GET /v2/ returns 200 with an empty body exactly when credentials are
\* present and accepted; with credentials absent or rejected it returns 401;
\* both responses carry WWW-Authenticate: Basic realm="ContainerRegistry".
C7_IndexStatusFollowsCredentials ==
    last.op = "index_v2" =>
        /\ last.resp.status = 200 <=> check_credentials(last.creds)
        /\ last.creds # "good" => last.resp.status = 401
        /\ last.resp.body = <<>>
        /\ last.resp.www = "Basic realm=\"ContainerRegistry\""

\* GET /v2/ has just been answered 401 to credentials the authenticator
\* rejected.
C7_Witness ==
    /\ last.op = "index_v2"
    /\ last.creds = "bad"
    /\ last.resp.status = 401
    /\ last.resp.www = "Basic realm=\"ContainerRegistry\""

\* C9: after POST has created upload U, PATCH requests on U without Range,
\* each answered 202, leave the staged content equal to the concatenation of
\* their bodies in order, so that the PUT with the digest of the concatenation
\* is answered 201 and the blob read back is the concatenation.
C9_PatchesConcatenate ==
    \A u \in UploadIds :
        (u <= issued /\ client[u].clean /\ client[u].npatch >= 1) =>
            LET B == client[u].sent
                D == DigestStrOf(B)
            IN  /\ client[u].fin = <<>> =>
                     /\ uploads[u].present
                     /\ uploads[u].data = B
                     /\ FinalizeResponse(u, D).status = 201
                     /\ blob_get(FinalizeOutcome(u, D).blobs, Deserialized(D),
                                 "good", FALSE).body = B
                /\ client[u].asked = D =>
                     /\ GetBlobResponse(D).status = 200
                     /\ GetBlobResponse(D).body = B

\* A PATCH of one byte has just been answered 202 on an upload that an
\* earlier PATCH had given its first byte.
C9_Witness ==
    /\ last.op = "upload_add_chunk"
    /\ last.resp.status = 202
    /\ last.resp.completed = 1
    /\ Pushed(1, 2)
    /\ client[1].sent = <<0, 1>>
    /\ uploads[1].data = <<0, 1>>

\* What the Path extractor makes of each manifest path requests carry.
ManifestReferenceTable ==
    [l \in Locations, s \in ReferenceStrs |-> ManifestReference_deserialize(l, s)]

\* GET of the manifest of location l under reference s, with valid
\* credentials and no I/O fault, as the handler would answer it now.
GetManifestResponse(l, s) ==
    manifest_get(manifests, tags, ManifestReferenceTable[l, s], "good", FALSE)

\* The PUT the last response answers stored body M under a tag with 201.
LastPutStored(t) ==
    /\ last.op = "manifest_put"
    /\ last.resp.status = 201
    /\ last.resp.loc = <<t[1], t[2]>>

\* C4 as stated: a manifest M stored by PUT under a tag T is answered 201
\* with Docker-Content-Digest = sha256:SHA-256(M), and afterwards GET by T and
\* GET by the digest of M both return 200 with body exactly M.
C4_Original ==
    \A t \in tagPut :
        /\ LastPutStored(t) => last.resp.digest = DigestStrOf(t[3])
        /\ GetManifestResponse(t[1], t[2]).status = 200
        /\ GetManifestResponse(t[1], t[2]).body = t[3]
        /\ GetManifestResponse(t[1], DigestStrOf(t[3])).status = 200
        /\ GetManifestResponse(t[1], DigestStrOf(t[3])).body = t[3]

\* C4, amended: a manifest M stored by PUT under a tag T is answered 201 with
\* Docker-Content-Digest = sha256:SHA-256(M); afterwards GET by T and GET by
\* the digest of M both return 200 with body exactly M when M parses as JSON
\* with a media type, and both return 400 (ParseManifest) when it does not.
C4_ManifestReadBack ==
    \A t \in tagPut :
        /\ LastPutStored(t) => last.resp.digest = DigestStrOf(t[3])
        /\ \A s \in {t[2], DigestStrOf(t[3])} :
              IF ImageManifest_parse(t[3]) = ""
              THEN /\ GetManifestResponse(t[1], s).status = 200
                   /\ GetManifestResponse(t[1], s).body = t[3]
                   /\ GetManifestResponse(t[1], s).length = Len(t[3])
              ELSE /\ GetManifestResponse(t[1], s).status = 400
                   /\ GetManifestResponse(t[1], s).err = "ParseManifest"

\* A manifest has been stored under a tag with 201, and the GET that followed
\* returned it.
C4_Witness ==
    /\ last.op = "manifest_get"
    /\ last.resp.status = 200
    /\ last.resp.body = <<1, 1>>
    /\ <<Loc1, <<"v", "1">>, <<1, 1>>>> \in tagPut
    /\ GetManifestResponse(Loc1, DigestStrOf(<<1, 1>>)).body = <<1, 1>>

\* C5: after any sequence of manifest PUTs each (location, tag) is bound to at
\* most one digest, and reading by tag returns the bytes of the manifest most
\* recently stored under the tag in that location.
C5_TagBoundToLatest ==
    /\ \A a, b \in tags : (a[1] = b[1] /\ a[2] = b[2]) => a[3] = b[3]
    /\ \A t \in tagPut :
          /\ <<t[1], t[2], Sha256(t[3])>> \in tags
          /\ get_manifest(manifests, tags, t[1],
                          ManifestReferenceTable[t[1], t[2]].reference)
               = [found |-> TRUE, data |-> t[3]]
          /\ ImageManifest_parse(t[3]) = ""
               => GetManifestResponse(t[1], t[2]).body = t[3]

\* A tag that held one manifest has been put again with another, which is
\* what it now reads as; the earlier one is still stored under its digest.
C5_Witness ==
    /\ last.op = "manifest_put"
    /\ last.resp.status = 201
    /\ last.resp.loc = <<Loc1, <<"v", "1">>>>
    /\ <<Loc1, <<"v", "1">>, <<1, 1>>>> \in tagPut
    /\ <<Loc1, Sha256(<<1, 0>>), <<1, 0>>>> \in manifests
    /\ <<Loc1, <<"l", "a", "t", "e", "s", "t">>, Sha256(<<1, 0>>)>> \notin tags
    /\ GetManifestResponse(Loc1, <<"v", "1">>).body = <<1, 1>>

\* The hook events among the events of a response.
HookEvents(events) ==
    { i \in 1..Len(events) :
        events[i] \in { on_manifest_uploaded(o) : o \in {"ok", "failed"} } }

\* C8: the hook is invoked exactly once for a manifest PUT that succeeds,
\* after put_manifest has returned success (the manifest is stored) and before
\* the 201; it is never invoked for a manifest PUT that fails; and what
\* happens inside the hook changes neither the response nor what is stored.
C8_HookOnceAfterSuccess ==
    /\ last.op = "manifest_put" =>
          /\ last.resp.status = 201 =>
                /\ Len(last.resp.events) = 2
                /\ last.resp.events[1] = "put_manifest:ok"
                /\ HookEvents(last.resp.events) = {2}
                /\ \E m \in manifests :
                      /\ m[1] = last.resp.loc[1]
                      /\ to_string(m[2]) = last.resp.digest
          /\ last.resp.status # 201 => HookEvents(last.resp.events) = {}
    /\ \A r \in ManifestPuts :
          LET ok == manifest_put(manifests, tags, r.ref, r.creds, r.body,
                                 r.fault, "ok")
              failed == manifest_put(manifests, tags, r.ref, r.creds, r.body,
                                     r.fault, "failed")
          IN  /\ ok.resp.status = failed.resp.status
              /\ ok.resp.digest = failed.resp.digest
              /\ ok.manifests = failed.manifests
              /\ ok.tags = failed.tags

\* A manifest PUT has been answered 201 although its hook call went wrong.
C8_Witness ==
    /\ last.op = "manifest_put"
    /\ last.resp.status = 201
    /\ last.resp.events = <<"put_manifest:ok", "on_manifest_uploaded:failed">>
    /\ manifests # {}

\* Whether a reference of a location has a manifest: a tag that a PUT
\* answered 201 has stored, or a digest whose bytes are stored there.
Stored(l, s) ==
    IF s \in TagStrs
    THEN \E t \in tagPut : t[1] = l /\ t[2] = s
    ELSE \E m \in manifests : m[1] = l /\ to_string(m[2]) = s

\* C10: GET of a manifest with valid credentials returns 404 whenever the tag
\* has never been stored in that location or the digest has no stored
\* manifest there; it never returns 200 for a reference that was not stored.
C10_MissingManifestIs404 ==
    \A l \in Locations, s \in ReferenceStrs :
        ~Stored(l, s) =>
            /\ GetManifestResponse(l, s).status = 404
            /\ GetManifestResponse(l, s).err = "NotFound"

\* A tag and its manifest are stored in one location; GET of the same tag and
\* of the same digest in the other location has just been answered 404.
C10_Witness ==
    /\ last.op = "manifest_get"
    /\ last.creds = "good"
    /\ last.resp.status = 404
    /\ Stored(Loc2, <<"l", "a", "t", "e", "s", "t">>)
    /\ ~Stored(Loc1, <<"l", "a", "t", "e", "s", "t">>)
    /\ ~Stored(Loc1, DigestStrOf(<<1, 0>>))
    /\ GetManifestResponse(Loc2, DigestStrOf(<<1, 0>>)).status = 200
    /\ GetManifestResponse(Loc1, DigestStrOf(<<1, 0>>)).status = 404

\* The digest strings among the manifest references requests carry.
DigestReferenceStrs == ReferenceStrs \ TagStrs

\* PUT of body M under reference s of location l, with valid credentials and
\* no I/O fault, as the handler would answer it now.
PutManifestResponse(l, s, M) ==
    manifest_put(manifests, tags, ManifestReferenceTable[l, s], "good", M,
                 "none", "ok").resp

\* C11: a manifest PUT whose reference is a digest D fails with DigestMismatch
\* (status 400) unless the SHA-256 of the body equals D; when it does, the PUT
\* is answered 201 with the computed digest.
C11_ManifestPutByDigest ==
    \A l \in Locations, s \in DigestReferenceStrs, M \in ManifestBodies :
        IF DigestStrOf(M) = s
        THEN /\ PutManifestResponse(l, s, M).status = 201
             /\ PutManifestResponse(l, s, M).digest = s
        ELSE /\ PutManifestResponse(l, s, M).status = 400
             /\ PutManifestResponse(l, s, M).err = "Storage:DigestMismatch"

\* A manifest PUT under a digest its body does not hash to has just been
\* answered 400, no tag being involved.
C11_Witness ==
    /\ last.op = "manifest_put"
    /\ last.resp.status = 400
    /\ last.resp.err = "Storage:DigestMismatch"
    /\ <<Loc1, Sha256(<<1, 1>>), <<1, 1>>>> \in manifests
    /\ tags = {}

\* The bodies and I/O faults a PATCH may meet.
AllStreams == { st : st \in Streams(MaxLen) }

PatchFaults == {"none", "open", "write", "flush"}

\* C12: a PATCH that carries a Range header, on an upload id that parses and
\* with valid credentials, is rejected with NotSupported, status 500,
\* whatever its body and whatever the state of the upload (never begun,
\* staged, finalized); nothing is written.
C12_RangeIsNotSupported ==
    \A u \in UploadIds, st \in AllStreams, f \in PatchFaults :
        LET h == upload_add_chunk(uploads, Loc1, u, "good", TRUE, st, f)
        IN  /\ h.resp.status = 500
            /\ h.resp.err = "NotSupported"
            /\ h.uploads = uploads

\* A PATCH with a Range header has just been answered 500 on an upload that
\* was committed before, no staging object being left.
C12_Witness ==
    /\ last.op = "upload_add_chunk"
    /\ last.resp.status = 500
    /\ last.resp.err = "NotSupported"
    /\ issued = 1
    /\ client[1].fin # <<>>
    /\ \A u \in UploadIds : ~uploads[u].present

\* C13: when a blob with digest D is already there, finalizing another upload
\* whose staged bytes hash to D with ?digest=D is answered 201, and the blob
\* namespace, the blob under D included, is as it was.
C13_FinalizeExistingIsNoOp ==
    \A u \in UploadIds : uploads[u].present =>
        LET D == DigestStrOf(uploads[u].data)
        IN  Observable(blobs, D) =>
               /\ FinalizeOutcome(u, D).resp.status = 201
               /\ FinalizeOutcome(u, D).resp.digest = D
               /\ FinalizeOutcome(u, D).blobs = blobs
               /\ blob_get(FinalizeOutcome(u, D).blobs, Deserialized(D),
                           "good", FALSE).body = uploads[u].data

\* Two uploads of the same byte have both been finalized with 201, the second
\* just now, and one blob is stored.
C13_Witness ==
    /\ last.op = "upload_finalize"
    /\ last.resp.status = 201
    /\ client[1].fin = DigestStrOf(<<1>>)
    /\ client[2].fin = DigestStrOf(<<1>>)
    /\ blobs = {<<Sha256(<<1>>), <<1>>>>}

\* C18: a PATCH never changes the blob namespace; when its body stream fails
\* (IncomingReadFailed, 500) every staging object remains; and the blob
\* namespace changes only in a step that is a finalize answered 201.
C18_OnlyFinalizeCommits ==
    [][/\ last'.op = "upload_add_chunk" => blobs' = blobs
       /\ (last'.op = "upload_add_chunk" /\ last'.resp.err = "IncomingReadFailed")
             => /\ last'.resp.status = 500
                /\ \A u \in UploadIds : uploads[u].present => uploads'[u].present
       /\ blobs' # blobs
             => /\ last'.op = "upload_finalize"
                /\ last'.resp.status = 201]_vars

\* The body stream of a PATCH has just failed after one byte was written: the
\* staging object holds the byte and no blob is stored.
C18_Witness ==
    /\ last.op = "upload_add_chunk"
    /\ last.resp.err = "IncomingReadFailed"
    /\ last.resp.status = 500
    /\ uploads[1].present
    /\ uploads[1].data = <<1>>
    /\ blobs = {}

(***************************************************************************)
(* Digest parsing and formatting on their own: a specification that draws *)
(* digests and digest strings and applies ImageDigest::from_str and fmt.   *)
(***************************************************************************)
\* The values the first and the last byte of a drawn digest take.
ByteSamples == {0, 9, 10, 15, 16, 171, 255}

DigestInputs ==
    { [i \in 1..SHA256_LEN |-> IF i = 1 THEN a ELSE IF i = SHA256_LEN THEN b ELSE 171] :
        a, b \in ByteSamples }

\* Strings that are wrong in more than one way, or in one place only: the
\* prefix alone, 71 characters with a wrong prefix and no hex after it, a
\* digest with one character that is no hex digit, first or last, and a
\* wrong prefix on a string one character short.
OddDigestStrs ==
    { Sha256Prefix,
      <<"s", "h", "a", "5", "1", "2", ":">> \o [i \in 1..DIGEST_HEX_LEN |-> "z"],
      Sha256Prefix \o <<"g">> \o SubSeq(DigestHex(UnknownDigest), 2, DIGEST_HEX_LEN),
      Sha256Prefix \o SubSeq(DigestHex(UnknownDigest), 1, DIGEST_HEX_LEN - 1) \o <<"-">>,
      <<"S", "H", "A", "2", "5", "6", ":">> \o DigestHex(UnknownDigest),
      <<"s", "h", "a", "5", "1", "2", ":">>
         \o SubSeq(DigestHex(UnknownDigest), 2, DIGEST_HEX_LEN) }

\* The strings handed to from_str: every drawn digest in lower-case and in
\* upper-case hex, and strings of a wrong length, prefix or alphabet.
DigestStrInputs ==
    { ImageDigest_fmt(d) : d \in DigestInputs }
    \cup { Sha256Prefix \o UpperHex(d) : d \in DigestInputs }
    \cup MalformedDigestStrs
    \cup OddDigestStrs
    \cup { SubSeq(ImageDigest_fmt(UnknownDigest), 1, PREFIX_LEN + DIGEST_HEX_LEN - 1),
           ImageDigest_fmt(UnknownDigest) \o <<"0">> }

\* raw.parse::<ImageDigest>(), and the result formatted again.
ParseDigest ==
    \E raw \in DigestStrInputs :
        LET parsed == ImageDigest_from_str(raw)
        IN  /\ last' = [op |-> "from_str", raw |-> raw, err |-> parsed.err,
                        formatted |-> IF parsed.err = ""
                                      THEN ImageDigest_fmt(parsed.digest)
                                      ELSE <<>>]
            /\ UNCHANGED <<storageVars, client, tagPut, calls>>

\* ImageDigest::new(d).to_string(), and the result parsed again.
FormatDigest ==
    \E d \in DigestInputs :
        /\ last' = [op |-> "fmt", digest |-> d,
                    formatted |-> ImageDigest_fmt(d),
                    parsed |-> ImageDigest_from_str(ImageDigest_fmt(d))]
        /\ UNCHANGED <<storageVars, client, tagPut, calls>>

NextDigest == ParseDigest \/ FormatDigest

SpecDigest == Init /\ [][NextDigest]_vars

\* C20 as stated: parsing and formatting are inverses: parse("sha256:" +
\* hex(d)) = d for every digest d, and format(parse(s)) = s for every string
\* s that parse accepts, upper-case hex included.
C20_Original ==
    /\ last.op = "fmt" =>
          /\ last.parsed.err = ""
          /\ last.parsed.digest = last.digest
    /\ (last.op = "from_str" /\ last.err = "") => last.formatted = last.raw

(***************************************************************************)
(* Blob and manifest routes side by side, for requests that pass the       *)
(* extractors and meet no I/O fault.                                       *)
(***************************************************************************)
PlainReads ==
    { r \in ShortBlobReads : r.creds = "good" /\ ~r.io /\ r.image.err = "" }
PlainPosts ==
    { r \in Posts : r.creds = "good" /\ ~r.io /\ r.location = Loc1 }
PlainPatches ==
    { r \in ShortPatches : r.creds = "good" /\ r.upArg # 0 /\ ~r.range
                             /\ r.fault = "none" }
PlainFinalizes ==
    { r \in ShortFinalizes : r.creds = "good" /\ r.upArg # 0 /\ r.digest.err = ""
                               /\ ~r.cl.present /\ ~r.io }
PlainManifestPuts ==
    { r \in ManifestPuts : r.creds = "good" /\ r.fault = "none" /\ r.outcome = "ok"
                             /\ r.ref.location = Loc1 /\ r.body = <<1, 0>> }

NextStore ==
    \/ GetBlob(PlainReads)
    \/ PostUpload(PlainPosts, MaxUploads)
    \/ PatchUpload(PlainPatches, ShortLen)
    \/ PutUpload(PlainFinalizes)
    \/ PutManifest(PlainManifestPuts)

SpecStore == Init /\ [][NextStore]_vars

\* C14: once a blob is committed under digest D its content never changes:
\* whatever comes next (a new upload, a PATCH, a finalize that succeeds or
\* fails, a manifest PUT), the blob is still there and reading D returns the
\* same bytes.
C14_BlobsNeverChange ==
    [][/\ \A p \in blobs : p \in blobs'
       /\ \A s \in CanonicalDigestStrs :
             Observable(blobs, s) =>
                blob_get(blobs', Deserialized(s), "good", FALSE)
                  = blob_get(blobs, Deserialized(s), "good", FALSE)]_vars

\* A blob was committed by the first upload; since then a second upload has
\* failed, a manifest has been stored, and GET has just returned the blob.
C14_Witness ==
    /\ last.op = "blob_get"
    /\ last.resp.status = 200
    /\ last.resp.body = <<1>>
    /\ client[1].fin = DigestStrOf(<<1>>)
    /\ issued = 2
    /\ ~client[2].clean
    /\ ~uploads[2].present
    /\ manifests # {}

(***************************************************************************)
(* Handler calls side by side.  A call is cut where the handler awaits the *)
(* storage and, inside finalize_upload and put_manifest, between the steps *)
(* that the storage takes one after the other; each step is atomic.        *)
(***************************************************************************)
\* A rename that fails when the target is there.
move_into_blobs_exclusive(bl, d, data) ==
    IF \E q \in bl : q[1] = d
    THEN [err |-> "Storage:Io", blobs |-> bl]
    ELSE [err |-> "", blobs |-> bl \cup {<<d, data>>}]

\* A commit that leaves under the digest a file the last byte of which is
\* not there.
move_into_blobs_truncated(bl, d, data) ==
    [err |-> "",
     blobs |-> { q \in bl : q[1] # d }
               \cup {<<d, SubSeq(data, 1, Len(data) - 1)>>}]

\* The rename of a staging object into the blob namespace: atomic, and over
\* whatever is under the digest.
move_into_blobs(bl, d, data) ==
    [err |-> "", blobs |-> { q \in bl : q[1] # d } \cup {<<d, data>>}]

\* The response upload_finalize builds from what finalize_upload returned.
upload_finalize_response(location, upArg, digest, err) ==
    IF err # "" THEN RegistryError_into_response(err)
    ELSE [Response(201, "") EXCEPT !.digest = to_string(digest.digest),
                                   !.loc = location, !.upload = upArg]

\* A call that has returned.
Done(call, resp) == [call EXCEPT !.pc = "done"] @@ [resp |-> resp]

\* The requests drawn in the races: one byte per PATCH, the digests of the
\* one-byte contents.
RacePatches ==
    { r \in PlainPatches : ~r.stream.fails /\ Len(r.stream.chunks) = 1 }

RaceFinalizes ==
    { r \in PlainFinalizes :
        r.digest.raw \in { DigestStrOf(B) : B \in ShortContents \ {<<>>} } }

\* What the client of an upload has sent when it calls: the bytes of its
\* PATCHes, all answered 202, as a one-element sequence; empty when it has
\* sent none or has seen a failure.
SentSoFar(u) ==
    IF u <= issued /\ client[u].clean /\ client[u].npatch >= 1
          /\ client[u].fin = <<>>
    THEN <<client[u].sent>> ELSE <<>>

\* The client of upload u after its finalize was answered resp.
ClientAfterFinalize(u, raw, resp) ==
    IF u > issued \/ client[u].fin # <<>> THEN client
    ELSE IF resp.status = 201 /\ client[u].clean
    THEN [client EXCEPT ![u].fin = resp.digest, ![u].asked = raw]
    ELSE [client EXCEPT ![u] = DirtyClient]

\* upload_finalize up to the first step of finalize_upload: the staging
\* object is closed and hashed; a digest that disagrees discards it.
FinalizeCall(p, requests) ==
    /\ calls[p].pc \in {"idle", "done"}
    /\ \E r \in requests :
          LET call == [op |-> "upload_finalize", pc |-> "check",
                       upload |-> r.upArg, digest |-> r.digest,
                       sent |-> SentSoFar(r.upArg)]
          IN  IF ~uploads[r.upArg].present
              THEN /\ calls' = [calls EXCEPT ![p] =
                                  Done(call, upload_finalize_response(
                                         Loc1, r.upArg, r.digest, "Storage:NotFound"))]
                   /\ client' = ClientAfterFinalize(
                                   r.upArg, r.digest.raw,
                                   RegistryError_into_response("Storage:NotFound"))
                   /\ UNCHANGED uploads
              ELSE IF Sha256(uploads[r.upArg].data) # r.digest.digest
              THEN /\ calls' = [calls EXCEPT ![p] =
                                  Done(call, upload_finalize_response(
                                         Loc1, r.upArg, r.digest,
                                         "Storage:DigestMismatch"))]
                   /\ client' = ClientAfterFinalize(
                                   r.upArg, r.digest.raw,
                                   RegistryError_into_response("Storage:DigestMismatch"))
                   /\ uploads' = [uploads EXCEPT ![r.upArg] = NoUpload]
              ELSE /\ calls' = [calls EXCEPT ![p] = call]
                   /\ UNCHANGED <<uploads, client>>
    /\ UNCHANGED <<issued, blobs, manifests, tags, last, tagPut>>

\* finalize_upload looks whether the digest is already in the blob namespace.
FinalizeCheck(p) ==
    /\ calls[p].op = "upload_finalize"
    /\ calls[p].pc = "check"
    /\ calls' = [calls EXCEPT ![p].pc =
                    IF get_blob_metadata(blobs, calls[p].digest.digest).found
                    THEN "discard" ELSE "rename"]
    /\ UNCHANGED <<storageVars, last, client, tagPut>>

\* finalize_upload moves the staging object into the blob namespace, or drops
\* it when the digest was there; upload_finalize answers.
FinalizeCommit(p) ==
    /\ calls[p].op = "upload_finalize"
    /\ calls[p].pc \in {"rename", "discard"}
    /\ LET u == calls[p].upload
           moved == move_into_blobs(blobs, calls[p].digest.digest, uploads[u].data)
           err == IF ~uploads[u].present THEN "Storage:Io"
                  ELSE IF calls[p].pc = "rename" THEN moved.err ELSE ""
           resp == upload_finalize_response(Loc1, u, calls[p].digest, err)
       IN  /\ calls' = [calls EXCEPT ![p] = Done(calls[p], resp)]
           /\ blobs' = IF uploads[u].present /\ calls[p].pc = "rename"
                       THEN moved.blobs ELSE blobs
           /\ uploads' = IF err = "" THEN [uploads EXCEPT ![u] = NoUpload]
                         ELSE uploads
           /\ client' = ClientAfterFinalize(u, calls[p].digest.raw, resp)
    /\ UNCHANGED <<issued, manifests, tags, last, tagPut>>

\* An upload id is used by one client at a time: task p finalizes upload p.
OwnFinalizes(p) == { r \in RaceFinalizes : r.upArg = p }

\* The uploads no call in flight is working on.
Quiet(u) ==
    \A p \in Procs :
        (calls[p].pc \notin {"idle", "done"} /\ "upload" \in DOMAIN calls[p])
          => calls[p].upload # u

\* Uploads are staged one request at a time, each while no call is in flight
\* on it, and finalized side by side.
NextFinalizeRace ==
    \/ PostUpload(PlainPosts, MaxUploads)
    \/ PatchUpload({ r \in RacePatches : Quiet(r.upArg) }, ShortLen)
    \/ \E p \in Procs : FinalizeCall(p, OwnFinalizes(p))
    \/ \E p \in Procs : FinalizeCheck(p)
    \/ \E p \in Procs : FinalizeCommit(p)

SpecFinalizeRace == Init /\ [][NextFinalizeRace]_vars

\* Task p is in, or has returned from, a finalize whose upload had been
\* staged, when it called, by PATCHes answered 202 with bytes that hash to
\* the digest of the call.
FinalizesStaged(p) ==
    /\ calls[p].op = "upload_finalize"
    /\ calls[p].sent # <<>>
    /\ DigestStrOf(calls[p].sent[1]) = calls[p].digest.raw

\* C15: two finalize calls on distinct uploads whose staged bytes hash to the
\* same digest D both succeed, however their steps interleave, and what is
\* stored under D, while they run and afterwards, is the complete bytes, once.
C15_ConcurrentFinalizeSameDigest ==
    \A p, q \in Procs :
        (/\ p # q
         /\ FinalizesStaged(p) /\ FinalizesStaged(q)
         /\ calls[p].upload # calls[q].upload
         /\ calls[p].digest.digest = calls[q].digest.digest) =>
            LET d == calls[p].digest.digest
                B == calls[p].sent[1]
            IN  /\ calls[p].pc = "done" =>
                     /\ calls[p].resp.status = 201
                     /\ calls[p].resp.digest = DigestStrOf(B)
                /\ \A b \in blobs : b[1] = d => b[2] = B
                /\ (calls[p].pc = "done" /\ calls[q].pc = "done") =>
                     /\ { b \in blobs : b[1] = d } = {<<d, B>>}
                     /\ GetBlobResponse(DigestStrOf(B)).body = B

\* Both calls found the digest absent; the first has renamed its staging
\* object and been answered 201, the second is about to rename its own.
C15_Witness ==
    /\ FinalizesStaged(1) /\ FinalizesStaged(2)
    /\ calls[1].upload # calls[2].upload
    /\ calls[1].digest.digest = calls[2].digest.digest
    /\ calls[1].pc = "done"
    /\ calls[1].resp.status = 201
    /\ calls[2].pc = "rename"
    /\ blobs # {}

(***************************************************************************)
(* Readers beside writers: blob_get beside upload_finalize, manifest_get   *)
(* beside manifest_put.                                                    *)
(***************************************************************************)
\* A finalize of digest d is between its first and its last step.
FinalizeInFlight(d) ==
    \E q \in Procs : /\ calls[q].op = "upload_finalize"
                     /\ calls[q].pc \in {"check", "rename", "discard"}
                     /\ calls[q].digest.digest = d

\* blob_get up to the await on get_blob_reader: the blob is opened, or found
\* missing.  racing: a finalize of the digest was in flight at that moment.
ReadOpen(p, requests) ==
    /\ calls[p].pc \in {"idle", "done"}
    /\ \E r \in requests :
          LET call == [op |-> "blob_get", pc |-> "stream", image |-> r.image,
                       racing |-> FinalizeInFlight(r.image.digest)]
          IN  calls' = [calls EXCEPT ![p] =
                          IF get_blob_reader(blobs, r.image.digest).found
                          THEN call
                          ELSE Done(call, RegistryError_into_response("NotFound"))]
    /\ UNCHANGED <<storageVars, last, client, tagPut>>

\* The body of the 200 is streamed from what is under the digest.
ReadBody(p) ==
    /\ calls[p].op = "blob_get"
    /\ calls[p].pc = "stream"
    /\ calls' = [calls EXCEPT ![p] =
                    Done(calls[p],
                         [Response(200, "") EXCEPT
                            !.body = get_blob_reader(
                                        blobs, calls[p].image.digest).data])]
    /\ UNCHANGED <<storageVars, last, client, tagPut>>

\* put_manifest's write of the bytes under the digest address: the revision
\* is there whole, or not at all.
write_revision(mf, location, digest, bytes) ==
    mf \cup {<<location, digest, bytes>>}

\* A tag write that adds the binding beside the one that was there.
record_tag_beside(tg, location, tag, digest) ==
    tg \cup {<<location, tag, digest>>}

\* put_manifest's record of tag -> digest: the new binding replaces the old
\* in one step.
record_tag(tg, location, tag, digest) ==
    { t \in tg : ~(t[1] = location /\ t[2] = tag) }
      \cup {<<location, tag, digest>>}

\* The response manifest_put builds from what put_manifest returned.
manifest_put_response(manifest_reference, digest, err, outcome) ==
    IF err # ""
    THEN [RegistryError_into_response(err) EXCEPT !.events = <<"put_manifest:err">>]
    ELSE [Response(201, "") EXCEPT
            !.loc = <<manifest_reference.location, manifest_reference.raw>>,
            !.length = 0,
            !.digest = to_string(digest),
            !.events = <<"put_manifest:ok", on_manifest_uploaded(outcome)>>]

\* The response manifest_get builds from what get_manifest returned.
manifest_get_response(manifest_json) ==
    IF ~manifest_json.found THEN RegistryError_into_response("NotFound")
    ELSE IF ImageManifest_parse(manifest_json.data) # ""
    THEN RegistryError_into_response("ParseManifest")
    ELSE [Response(200, "") EXCEPT
            !.length = Len(manifest_json.data),
            !.ctype = media_type(manifest_json.data),
            !.body = manifest_json.data]

\* The manifest requests drawn in the races: two manifests, one tag of one
\* location, and the digests of the two.
RaceBodies == { <<1, 0>>, <<1, 1>> }
RaceTag == <<"l", "a", "t", "e", "s", "t">>
RaceReferenceStrs == {RaceTag} \cup { DigestStrOf(M) : M \in RaceBodies }

RaceManifestPuts ==
    { r \in ManifestPuts : /\ r.creds = "good" /\ r.fault = "none"
                           /\ r.outcome = "ok" /\ r.ref.location = Loc1
                           /\ r.body \in RaceBodies
                           /\ r.ref.raw \in RaceReferenceStrs }

RaceManifestGets ==
    { r \in ManifestGets : /\ r.creds = "good" /\ ~r.io
                           /\ r.ref.location = Loc1
                           /\ r.ref.raw \in RaceReferenceStrs }

\* A put_manifest under the reference is between its write and its return.
PutInFlight(ref) ==
    \E q \in Procs : /\ calls[q].op = "manifest_put"
                     /\ calls[q].pc \in {"tag", "hook"}
                     /\ calls[q].ref = ref

\* manifest_put up to put_manifest's first steps: the bytes are hashed and
\* written under the digest address; a digest reference is compared.
\* racing: a put under the same reference was in flight at that moment.
ManifestPutCall(p, requests) ==
    /\ calls[p].pc \in {"idle", "done"}
    /\ \E r \in requests :
          LET digest == Sha256(r.body)
              call == [op |-> "manifest_put", pc |-> "tag", ref |-> r.ref,
                       body |-> r.body, digest |-> digest,
                       outcome |-> r.outcome, racing |-> PutInFlight(r.ref)]
          IN  /\ manifests' = write_revision(manifests, r.ref.location,
                                             digest, r.body)
              /\ calls' = [calls EXCEPT ![p] =
                   IF r.ref.reference.kind = "tag" THEN call
                   ELSE IF r.ref.reference.digest # digest
                   THEN Done(call, manifest_put_response(
                                      r.ref, digest, "Storage:DigestMismatch",
                                      r.outcome))
                   ELSE [call EXCEPT !.pc = "hook"]]
    /\ UNCHANGED <<uploads, issued, blobs, tags, last, client, tagPut>>

\* put_manifest records tag -> digest and returns.
ManifestPutTag(p) ==
    /\ calls[p].op = "manifest_put"
    /\ calls[p].pc = "tag"
    /\ tags' = record_tag(tags, calls[p].ref.location,
                          calls[p].ref.reference.tag, calls[p].digest)
    /\ calls' = [calls EXCEPT ![p].pc = "hook"]
    /\ UNCHANGED <<uploads, issued, blobs, manifests, last, client, tagPut>>

\* manifest_put calls the hook and answers.
ManifestPutRespond(p) ==
    /\ calls[p].op = "manifest_put"
    /\ calls[p].pc = "hook"
    /\ calls' = [calls EXCEPT ![p] =
                    Done(calls[p], manifest_put_response(
                                      calls[p].ref, calls[p].digest, "",
                                      calls[p].outcome))]
    /\ UNCHANGED <<storageVars, last, client, tagPut>>

\* manifest_get up to get_manifest's first step: a tag is resolved to the
\* digest it is bound to.
ManifestGetCall(p, requests) ==
    /\ calls[p].pc \in {"idle", "done"}
    /\ \E r \in requests :
          LET bound == { t \in tags : /\ t[1] = r.ref.location
                                      /\ t[2] = r.ref.reference.tag }
              call == [op |-> "manifest_get", pc |-> "read", ref |-> r.ref,
                       digest |-> <<>>]
          IN  calls' = [calls EXCEPT ![p] =
                IF r.ref.reference.kind = "digest"
                THEN [call EXCEPT !.digest = r.ref.reference.digest]
                ELSE IF bound = {}
                THEN Done(call, manifest_get_response(
                                   [found |-> FALSE, data |-> <<>>]))
                ELSE [call EXCEPT !.digest = (CHOOSE t \in bound : TRUE)[3]]]
    /\ UNCHANGED <<storageVars, last, client, tagPut>>

\* get_manifest reads the revision under the digest; manifest_get parses it
\* and answers.
ManifestGetRead(p) ==
    /\ calls[p].op = "manifest_get"
    /\ calls[p].pc = "read"
    /\ calls' = [calls EXCEPT ![p] =
                    Done(calls[p],
                         manifest_get_response(
                            revision(manifests, calls[p].ref.location,
                                     calls[p].digest)))]
    /\ UNCHANGED <<storageVars, last, client, tagPut>>

RaceReads ==
    { r \in PlainReads :
        r.image.raw \in { DigestStrOf(B) : B \in ShortContents \ {<<>>} } }

\* Beside the blob traffic one manifest is put, under the tag and under its
\* digest, and read back by either.
OneManifestPuts ==
    { r \in RaceManifestPuts :
        r.body = <<1, 0>> /\ r.ref.raw \in {RaceTag, DigestStrOf(<<1, 0>>)} }

OneManifestGets ==
    { r \in RaceManifestGets : r.ref.raw \in {RaceTag, DigestStrOf(<<1, 0>>)} }

NextReadRace ==
    \/ PostUpload(PlainPosts, MaxUploads)
    \/ PatchUpload({ r \in RacePatches : Quiet(r.upArg) }, ShortLen)
    \/ \E p \in Procs : FinalizeCall(p, OwnFinalizes(p))
    \/ \E p \in Procs : FinalizeCheck(p)
    \/ \E p \in Procs : FinalizeCommit(p)
    \/ \E p \in Procs : ReadOpen(p, RaceReads)
    \/ \E p \in Procs : ReadBody(p)
    \/ \E p \in Procs : ManifestPutCall(p, OneManifestPuts)
    \/ \E p \in Procs : ManifestPutTag(p)
    \/ \E p \in Procs : ManifestPutRespond(p)
    \/ \E p \in Procs : ManifestGetCall(p, OneManifestGets)
    \/ \E p \in Procs : ManifestGetRead(p)

SpecReadRace == Init /\ [][NextReadRace]_vars

\* C16: a blob read that runs beside a finalize of its digest, whatever the
\* interleaving, ends in 404 or in 200 with the complete bytes, those that
\* hash to the digest asked for; a manifest read that runs beside a manifest
\* PUT ends in 404 or in 200 with the complete manifest, the bytes that hash
\* to the digest it resolved.  No reader is handed part of a blob or manifest.
C16_ReadersSeeAllOrNothing ==
    \A p \in Procs :
        calls[p].pc = "done" =>
            /\ calls[p].op = "blob_get" =>
                 \/ calls[p].resp.status = 404
                 \/ /\ calls[p].resp.status = 200
                    /\ Sha256(calls[p].resp.body) = calls[p].image.digest
            /\ calls[p].op = "manifest_get" =>
                 \/ calls[p].resp.status = 404
                 \/ /\ calls[p].resp.status = 200
                    /\ Sha256(calls[p].resp.body) = calls[p].digest
                    /\ calls[p].resp.length = Len(calls[p].resp.body)

\* Task 1 opened the blob while task 2's finalize of the same digest was in
\* flight, and has read one byte with 200 while that finalize is still about
\* to rename its staging object.
C16_Witness ==
    /\ calls[1].op = "blob_get"
    /\ calls[1].pc = "done"
    /\ calls[1].racing
    /\ calls[1].resp.status = 200
    /\ Len(calls[1].resp.body) = 1
    /\ calls[2].op = "upload_finalize"
    /\ calls[2].pc = "rename"
    /\ calls[2].digest.digest = calls[1].image.digest

(***************************************************************************)
(* Manifest PUTs side by side.                                             *)
(***************************************************************************)
NextTagRace ==
    \/ \E p \in Procs : ManifestPutCall(p, RaceManifestPuts)
    \/ \E p \in Procs : ManifestPutTag(p)
    \/ \E p \in Procs : ManifestPutRespond(p)
    \/ \E p \in Procs : ManifestGetCall(p, RaceManifestGets)
    \/ \E p \in Procs : ManifestGetRead(p)

SpecTagRace == Init /\ [][NextTagRace]_vars

\* Task p has put a manifest under the tag and been answered 201.
PutUnderTag(p) ==
    /\ calls[p].op = "manifest_put"
    /\ calls[p].pc = "done"
    /\ calls[p].ref.reference.kind = "tag"
    /\ calls[p].resp.status = 201

\* C17: two manifest PUTs of different manifests M1 and M2 under one tag of
\* one location, however their steps interleave, leave the tag bound to one
\* of the two: GET by the tag returns all of M1 or all of M2, and GET by the
\* digest of either returns it.  At no moment, while they run, does the tag
\* have two bindings or point at a digest under which no manifest is stored.
C17_ConcurrentTagPuts ==
    /\ \A t, s \in tags : (t[1] = s[1] /\ t[2] = s[2]) => t = s
    /\ \A t \in tags :
          /\ revision(manifests, t[1], t[3]).found
          /\ Sha256(revision(manifests, t[1], t[3]).data) = t[3]
    /\ \A p, q \in Procs :
          (/\ p # q
           /\ PutUnderTag(p) /\ PutUnderTag(q)
           /\ calls[p].ref = calls[q].ref
           /\ calls[p].body # calls[q].body) =>
              LET l == calls[p].ref.location
                  byTag == GetManifestResponse(l, calls[p].ref.raw)
              IN  /\ byTag.status = 200
                  /\ byTag.body \in {calls[p].body, calls[q].body}
                  /\ byTag.length = Len(byTag.body)
                  /\ \A M \in {calls[p].body, calls[q].body} :
                        LET byDigest == GetManifestResponse(l, DigestStrOf(M))
                        IN  byDigest.status = 200 /\ byDigest.body = M

\* Task 2 called while task 1's put under the tag was in flight, wrote the
\* tag first, and both were answered 201: the tag is bound to the manifest of
\* task 1.
C17_Witness ==
    /\ PutUnderTag(1) /\ PutUnderTag(2)
    /\ calls[1].ref = calls[2].ref
    /\ calls[1].body # calls[2].body
    /\ calls[2].racing
    /\ GetManifestResponse(calls[1].ref.location, calls[1].ref.raw).body
         = calls[1].body

(***************************************************************************)
(* PATCHes side by side.  The body loop of upload_add_chunk awaits the     *)
(* stream and the writer once per chunk, so that the chunk writes of two   *)
(* calls interleave.                                                       *)
(***************************************************************************)
\* A write that lands in every staging object there is.
upload_write_all_staged(up, u, chunk) ==
    [v \in DOMAIN up |->
        IF up[v].present
        THEN [up[v] EXCEPT !.data = writer_write_all(@, chunk)]
        ELSE up[v]]

\* writer.write_all(chunk) on the writer of upload u: the chunk is appended to
\* the staging object of u; when that object is gone the bytes go nowhere.
upload_write(up, u, chunk) ==
    IF up[u].present
    THEN [up EXCEPT ![u].data = writer_write_all(@, chunk)]
    ELSE up

\* The bytes the calls in flight on upload u have yet to write.
Pending(u) ==
    LET left(p) == IF /\ calls[p].op = "upload_add_chunk"
                      /\ calls[p].pc = "body"
                      /\ calls[p].upload = u
                   THEN TotalLen(calls[p].chunks) ELSE 0
    IN  left(1) + left(2)

\* The PATCHes task p sends: one chunk of one byte, p - 1, which tells in
\* the staged bytes whose write each one was; the stream then ends or fails.
ConcurrentPatchTable ==
    [p \in Procs |->
        { r \in LongPatches :
            /\ r.creds = "good" /\ r.upArg # 0 /\ ~r.range /\ r.fault = "none"
            /\ r.stream.chunks = << <<p - 1>> >> }]
ConcurrentPatches(p) == ConcurrentPatchTable[p]

\* The finalizes drawn beside them: those of the digest of the byte 0.
ZeroFinalizes ==
    { r \in PlainFinalizes : r.digest.raw = DigestStrOf(<<0>>) }

\* upload_add_chunk up to the await on get_upload_writer.  The client of the
\* upload no longer knows what is staged.  A PATCH whose chunks, with those
\* the calls in flight have yet to write, would exceed MaxLen is not drawn.
PatchOpen(p, requests) ==
    /\ calls[p].pc \in {"idle", "done"}
    /\ \E r \in requests :
          LET writer == get_upload_writer(uploads, 0, r.upArg)
              call == [op |-> "upload_add_chunk", pc |-> "body",
                       upload |-> r.upArg, chunks |-> r.stream.chunks,
                       fails |-> r.stream.fails, completed |-> 0]
          IN  /\ uploads[r.upArg].present =>
                    Len(uploads[r.upArg].data) + Pending(r.upArg)
                      + TotalLen(r.stream.chunks) <= MaxLen
              /\ calls' = [calls EXCEPT ![p] =
                              IF writer.err # ""
                              THEN Done(call, RegistryError_into_response(writer.err))
                              ELSE call]
              /\ client' = IF r.upArg <= issued /\ client[r.upArg].fin = <<>>
                           THEN [client EXCEPT ![r.upArg] = DirtyClient]
                           ELSE client
    /\ UNCHANGED <<storageVars, last, tagPut>>

\* One turn of the body loop: the next chunk is written through the writer.
PatchWrite(p) ==
    /\ calls[p].op = "upload_add_chunk"
    /\ calls[p].pc = "body"
    /\ calls[p].chunks # <<>>
    /\ uploads' = upload_write(uploads, calls[p].upload, Head(calls[p].chunks))
    /\ calls' = [calls EXCEPT ![p].chunks = Tail(@),
                              ![p].completed = @ + Len(Head(calls[p].chunks))]
    /\ UNCHANGED <<issued, blobs, manifests, tags, last, client, tagPut>>

\* The stream ends or fails; the writer is flushed and the call answers.
PatchFinish(p) ==
    /\ calls[p].op = "upload_add_chunk"
    /\ calls[p].pc = "body"
    /\ calls[p].chunks = <<>>
    /\ calls' = [calls EXCEPT ![p] =
                    Done([calls[p] EXCEPT !.pc = "done"],
                         IF calls[p].fails
                         THEN RegistryError_into_response("IncomingReadFailed")
                         ELSE UploadState_into_response(
                                 Loc1, calls[p].completed, calls[p].upload))]
    /\ UNCHANGED <<storageVars, last, client, tagPut>>

\* PATCHes race on the uploads; an upload is finalized while no PATCH is in
\* flight on it; a manifest is put under a tag.
NextPatchRace ==
    \/ PostUpload(PlainPosts, MaxUploads)
    \/ \E p \in Procs : PatchOpen(p, ConcurrentPatches(p))
    \/ \E p \in Procs : PatchWrite(p)
    \/ \E p \in Procs : PatchFinish(p)
    \/ PutUpload({ r \in ZeroFinalizes : Quiet(r.upArg) })
    \/ PutManifest(PlainManifestPuts)

SpecPatchRace == Init /\ [][NextPatchRace]_vars

\* C19: a step of a PATCH, whatever other PATCH runs beside it on the same
\* upload, changes no blob, no manifest, no tag and no staging object other
\* than that of its own upload.
C19_PatchRaceStaysInItsUpload ==
    [][\A p \in Procs :
          (calls'[p] # calls[p] /\ calls'[p].op = "upload_add_chunk") =>
              /\ blobs' = blobs
              /\ manifests' = manifests
              /\ tags' = tags
              /\ \A u \in UploadIds :
                    u # calls'[p].upload => uploads'[u] = uploads[u]]_vars

\* Two PATCHes on upload 2 have each written a byte, before either was
\* answered, while a blob, a manifest and a tag are stored.
C19_Witness ==
    /\ \A p \in Procs : /\ calls[p].op = "upload_add_chunk"
                        /\ calls[p].pc = "body"
                        /\ calls[p].upload = 2
                        /\ calls[p].completed = 1
    /\ Len(uploads[2].data) = 2
    /\ blobs # {}
    /\ manifests # {}
    /\ tags # {}

(***************************************************************************)
(* Authentication gate, upload life cycle, header policy.                  *)
(***************************************************************************)
\* C21 as stated: on every route behind the gate a request whose credentials
\* are absent or rejected is answered 401 with WWW-Authenticate: Basic
\* realm="ContainerRegistry", whatever else is wrong with its path or query.
C21_Original ==
    (last.op \in ProtectedOps /\ ~check_credentials(last.creds)) =>
        /\ last.resp.status = 401
        /\ last.resp.www = "Basic realm=\"ContainerRegistry\""

\* A finalize request without Content-Length.
NoContentLength == [present |-> FALSE, value |-> <<>>]

\* No PATCH and no PUT on upload u, with valid credentials and no I/O fault,
\* is accepted in the storage state (up, bl), and none commits a blob.
NothingAccepted(up, bl, u) ==
    /\ \A st \in AllStreams :
          upload_add_chunk(up, Loc1, u, "good", FALSE, st, "none").resp.status # 202
    /\ \A s \in CanonicalDigestStrs :
          LET f == upload_finalize(up, bl, Loc1, u, Deserialized(s), "good",
                                   NoContentLength, FALSE)
          IN  f.resp.status # 201 /\ f.blobs = bl

\* After a PATCH with a Range header was rejected on an upload that POST had
\* created, nothing more is accepted on it.
RejectedIsTerminal ==
    \A u \in UploadIds : uploads[u].present =>
        LET h == upload_add_chunk(uploads, Loc1, u, "good", TRUE, NoStream, "none")
        IN  h.resp.err = "NotSupported" => NothingAccepted(h.uploads, blobs, u)

\* After a PUT on an upload was answered 201, nothing more is accepted on it.
CommittedIsTerminal ==
    \A u \in UploadIds, s \in CanonicalDigestStrs :
        LET f == upload_finalize(uploads, blobs, Loc1, u, Deserialized(s), "good",
                                 NoContentLength, FALSE)
        IN  f.resp.status = 201 => NothingAccepted(f.uploads, f.blobs, u)

\* C22 as stated: per upload id, Rejected and Committed are terminal.
C22_Original == RejectedIsTerminal /\ CommittedIsTerminal

\* Content-Length values by what they are: zero, a number other than zero,
\* no unsigned number.
ZeroLengths == { <<"0">>, <<"0", "0">>, <<"+", "0">> }
NonZeroLengths == { <<"7">>, <<"+", "7">>, <<"1", "0">> }
MalformedLengths == { <<>>, <<"x">>, <<"-", "0">>, <<"0", "x">>, <<"+">>, <<" ", "0">> }

\* The finalize of upload u with ?digest=s and the Content-Length cl.
FinalizeWithLength(u, s, cl) ==
    upload_finalize(uploads, blobs, Loc1, u, Deserialized(s), "good", cl, FALSE)

\* C23: a PUT that passes the extractors goes on to finalize_upload, with the
\* outcome of a PUT without Content-Length, when Content-Length is absent or
\* zero; a Content-Length that is a number other than zero is answered 500
\* NotSupported, one that is no unsigned number 400 ContentLengthMalformed,
\* and in both cases staging and blobs are as they were.
C23_ContentLengthPolicy ==
    \A u \in UploadIds, s \in CanonicalDigestStrs :
        LET stored == finalize_upload(uploads, blobs, u, Deserialized(s).digest)
            absent == FinalizeWithLength(u, s, NoContentLength)
        IN  /\ absent.uploads = stored.uploads
            /\ absent.blobs = stored.blobs
            /\ absent.resp.status = 201 <=> stored.err = ""
            /\ \A v \in ZeroLengths :
                  FinalizeWithLength(u, s, [present |-> TRUE, value |-> v]) = absent
            /\ \A v \in NonZeroLengths :
                  LET h == FinalizeWithLength(u, s, [present |-> TRUE, value |-> v])
                  IN  /\ h.resp.status = 500
                      /\ h.resp.err = "NotSupported"
                      /\ h.uploads = uploads /\ h.blobs = blobs
            /\ \A v \in MalformedLengths :
                  LET h == FinalizeWithLength(u, s, [present |-> TRUE, value |-> v])
                  IN  /\ h.resp.status = 400
                      /\ h.resp.err = "ContentLengthMalformed"
                      /\ h.uploads = uploads /\ h.blobs = blobs

\* A PUT with a Content-Length other than zero has just been answered 500
\* while the upload holds staged bytes and no blob is stored.
C23_Witness ==
    /\ last.op = "upload_finalize"
    /\ last.resp.status = 500
    /\ last.resp.err = "NotSupported"
    /\ uploads[1].present
    /\ uploads[1].data # <<>>
    /\ blobs = {}

\* The characters that are hex digits, in either case.
HexChars ==
    {"0", "1", "2", "3", "4", "5", "6", "7", "8", "9",
     "a", "b", "c", "d", "e", "f", "A", "B", "C", "D", "E", "F"}

\* What is right about a digest string.
RightLength(raw) == Len(raw) = 71
RightPrefix(raw) ==
    /\ Len(raw) >= 7
    /\ raw[1] = "s" /\ raw[2] = "h" /\ raw[3] = "a" /\ raw[4] = "2"
    /\ raw[5] = "5" /\ raw[6] = "6" /\ raw[7] = ":"
AllHex(raw) == \A i \in 8..Len(raw) : raw[i] \in HexChars

\* C24: parsing a digest string fails with WrongLength when its length is not
\* 71, whatever its prefix; with WrongPrefix when the length is 71 and the
\* string does not start with "sha256:"; with HexDecodeError when length and
\* prefix are right and one of the 64 characters that follow is no hex digit;
\* and succeeds in the remaining case only.
C24_DigestParseErrors ==
    last.op = "from_str" =>
        last.err = IF ~RightLength(last.raw) THEN "WrongLength"
                   ELSE IF ~RightPrefix(last.raw) THEN "WrongPrefix"
                   ELSE IF ~AllHex(last.raw) THEN "HexDecodeError"
                   ELSE ""

\* A string with neither the length nor the prefix of a digest has just been
\* refused for its length.
C24_Witness ==
    /\ last.op = "from_str"
    /\ ~RightLength(last.raw)
    /\ ~RightPrefix(last.raw)
    /\ last.err = "WrongLength"

\* What GET must answer for stored bytes: 200 with their media type, their
\* length and the bytes when they parse, 400 ParseManifest when they do not.
ServedAsStored(resp, bytes) ==
    IF ImageManifest_parse(bytes) = ""
    THEN /\ resp.status = 200
         /\ resp.ctype = media_type(bytes)
         /\ resp.length = Len(bytes)
         /\ resp.body = bytes
    ELSE /\ resp.status = 400
         /\ resp.err = "ParseManifest"
         /\ resp.body = <<>>

\* C25: GET of a stored manifest, by its digest or by a tag bound to it,
\* returns 200 with Content-Type its mediaType, Content-Length the stored
\* length and the stored bytes as body; when the stored bytes do not parse as
\* a manifest with a media type it returns 400 ParseManifest, although the PUT
\* of such bytes is answered 201.
C25_ManifestGetParsesStored ==
    /\ \A m \in manifests :
          ServedAsStored(GetManifestResponse(m[1], to_string(m[2])), m[3])
    /\ \A t \in tags :
          ServedAsStored(GetManifestResponse(t[1], t[2]),
                         revision(manifests, t[1], t[3]).data)
    /\ \A l \in Locations, T \in TagStrs, M \in ManifestBodies :
          PutManifestResponse(l, T, M).status = 201
    /\ \A M \in {<<1>>, <<0>>} : ImageManifest_parse(M) # ""

\* A body without a media type was put under a tag with 201, and the GET by
\* the tag has just been answered 400.
C25_Witness ==
    /\ last.op = "manifest_get"
    /\ last.resp.status = 400
    /\ last.resp.err = "ParseManifest"
    /\ <<Loc1, <<"v", "1">>, <<1>>>> \in tagPut
    /\ <<Loc1, Sha256(<<1>>), <<1>>>> \in manifests
    /\ GetManifestResponse(Loc1, <<"v", "1">>).status = 400

(***************************************************************************)
(* Requests the handlers turn down on a header, among requests that are in *)
(* order, with a manifest stored beside the blobs.                         *)
(***************************************************************************)
RejectPatches ==
    PlainPatches
    \cup { r \in ShortPatches : r.creds = "good" /\ r.upArg # 0 /\ r.range }

RejectFinalizes ==
    PlainFinalizes
    \cup { r \in ShortFinalizes : /\ r.creds = "good" /\ r.upArg # 0
                                  /\ r.digest.err = "" /\ r.cl.present /\ ~r.io }

NextReject ==
    \/ PostUpload(PlainPosts, MaxUploads)
    \/ PatchUpload(RejectPatches, ShortLen)
    \/ PutUpload(RejectFinalizes)
    \/ PutManifest(PlainManifestPuts)

SpecReject == Init /\ [][NextReject]_vars

\* The response is one of the rejections a handler decides on a header.
HeaderRejection(req) ==
    \/ req.op = "upload_add_chunk" /\ req.resp.err = "NotSupported"
    \/ req.op = "upload_finalize"
         /\ req.resp.err \in {"NotSupported", "ContentLengthMalformed"}

\* C26: a PATCH turned down for its Range header and a PUT turned down for
\* its Content-Length leave staging, blobs, manifests and tags as they were,
\* and every upload that is staged can be PATCHed (202) and finalized with
\* the digest of its bytes (201) right after.
C26_HeaderRejectionsTouchNothing ==
    [][HeaderRejection(last') =>
          /\ uploads' = uploads /\ issued' = issued /\ blobs' = blobs
          /\ manifests' = manifests /\ tags' = tags
          /\ \A u \in UploadIds : uploads'[u].present =>
                /\ upload_add_chunk(uploads', Loc1, u, "good", FALSE,
                                    NoStream, "none").resp.status = 202
                /\ upload_finalize(uploads', blobs', Loc1, u,
                                   Deserialized(DigestStrOf(uploads'[u].data)),
                                   "good", NoContentLength, FALSE).resp.status = 201]_vars

\* A PUT with a Content-Length that is no number has just been answered 400:
\* the upload still holds its byte, a blob, a manifest and a tag are stored.
C26_Witness ==
    /\ last.op = "upload_finalize"
    /\ last.resp.err = "ContentLengthMalformed"
    /\ last.resp.status = 400
    /\ uploads[2].present
    /\ uploads[2].data = <<1>>
    /\ blobs # {}
    /\ manifests # {}
    /\ tags # {}

(***************************************************************************)
(* Scope of blobs and of manifests.                                        *)
(***************************************************************************)
\* A blob route that serves a blob only under the location of the uploads.
blob_get_at_own_location(bl, location, image, creds, io) ==
    IF location # Loc1 /\ image.err = "" /\ ValidUser(creds) /\ ~io
    THEN RegistryError_into_response("NotFound")
    ELSE blob_get(bl, image, creds, io)

\* The blob routes as the router calls them: the Path extractor hands over
\* (repository, image, digest) and the handlers bind the first two to `_`.
blob_get_at(bl, location, image, creds, io) == blob_get(bl, image, creds, io)

blob_check_at(bl, location, image, creds, io) == blob_check(bl, image, creds, io)

\* C27: HEAD and GET of a blob answer the same under every (repository,
\* image): each committed blob is returned with 200 under both locations,
\* whichever the upload was started under; manifests and tags are scoped:
\* with manifests and tags stored under the first location only, every
\* manifest GET under the second is answered 404.
C27_BlobsGlobalManifestsScoped ==
    /\ \A s \in CanonicalDigestStrs, l \in Locations :
          /\ blob_get_at(blobs, l, Deserialized(s), "good", FALSE)
               = blob_get_at(blobs, Loc1, Deserialized(s), "good", FALSE)
          /\ blob_check_at(blobs, l, Deserialized(s), "good", FALSE)
               = blob_check_at(blobs, Loc1, Deserialized(s), "good", FALSE)
    /\ \A b \in blobs, l \in Locations :
          /\ blob_get_at(blobs, l, Deserialized(to_string(b[1])), "good", FALSE).status = 200
          /\ blob_get_at(blobs, l, Deserialized(to_string(b[1])), "good", FALSE).body = b[2]
          /\ blob_check_at(blobs, l, Deserialized(to_string(b[1])), "good", FALSE).status = 200
    /\ \A s \in ReferenceStrs : GetManifestResponse(Loc2, s).status = 404

\* A blob committed through an upload under the first location is served
\* under the second, where the manifest stored and tagged under the first is
\* not found.
C27_Witness ==
    /\ client[1].fin = DigestStrOf(<<1>>)
    /\ blob_get_at(blobs, Loc2, Deserialized(DigestStrOf(<<1>>)), "good", FALSE).body = <<1>>
    /\ GetManifestResponse(Loc1, <<"l", "a", "t", "e", "s", "t">>).status = 200
    /\ GetManifestResponse(Loc1, DigestStrOf(<<1, 0>>)).status = 200
    /\ GetManifestResponse(Loc2, <<"l", "a", "t", "e", "s", "t">>).status = 404
    /\ GetManifestResponse(Loc2, DigestStrOf(<<1, 0>>)).status = 404

\* The reference a tag binding or a stored revision is read by.
TagReference(t) == ManifestReferenceTable[t[1], t[2]].reference

\* C28: a manifest PUT removes no revision and writes one at most; it changes
\* no tag but the one it names, and that one only when it is answered 201.
\* After it, every revision stored before reads by its digest as it did, and
\* every other tag resolves to the manifest it resolved to: moving tag T
\* from M1 to M2 leaves M1 readable by digest and by its other tags.
C28_RetagKeepsManifests ==
    [][last'.op = "manifest_put" =>
          /\ manifests \subseteq manifests'
          /\ Cardinality(manifests' \ manifests) <= 1
          /\ tags' # tags => last'.resp.status = 201
          /\ \A t \in (tags \ tags') \cup (tags' \ tags) :
                <<t[1], t[2]>> = last'.resp.loc
          /\ \A m \in manifests :
                revision(manifests', m[1], m[2]) = [found |-> TRUE, data |-> m[3]]
          /\ \A t \in tags :
                <<t[1], t[2]>> # last'.resp.loc =>
                    get_manifest(manifests', tags', t[1], TagReference(t))
                      = get_manifest(manifests, tags, t[1], TagReference(t))]_vars

\* The tag v1 has just been put with one manifest while the tag latest is
\* bound to another, which reads by its digest and by latest as it was put.
C28_Witness ==
    /\ last.op = "manifest_put"
    /\ last.resp.status = 201
    /\ last.resp.loc = <<Loc1, <<"v", "1">>>>
    /\ <<Loc1, <<"v", "1">>, Sha256(<<1, 1>>)>> \in tags
    /\ <<Loc1, <<"l", "a", "t", "e", "s", "t">>, Sha256(<<1, 0>>)>> \in tags
    /\ GetManifestResponse(Loc1, DigestStrOf(<<1, 0>>)).body = <<1, 0>>
    /\ GetManifestResponse(Loc1, <<"l", "a", "t", "e", "s", "t">>).body = <<1, 0>>
    /\ GetManifestResponse(Loc1, <<"v", "1">>).body = <<1, 1>>

====
